---------------------------- MODULE Spec2Model ----------------------------
(***************************************************************************)
(* A model of pledger's ledger reader (src/src/pledger/mod.rs):            *)
(* parse_ledger pulls the lines of a ledger stream one by one and hands    *)
(* each to parse_entry, a character-driven state machine over the pair     *)
(* (prev_state, cur_state).  The second half models run() of               *)
(* src/src/main.rs, which selects the ledger files, has them parsed,       *)
(* filters the ledger and summarizes it.                                   *)
(*                                                                         *)
(* Characters are Unicode code points (naturals), a line is a sequence of  *)
(* code points, and an offset is a byte offset into the line's UTF-8 form, *)
(* as str::char_indices yields it.  A u64 is four 16-bit limbs, least      *)
(* significant first, so that arithmetic modulo 2^64 stays inside the      *)
(* integers the model checker computes with.                               *)
(***************************************************************************)
EXTENDS Naturals, Integers, Sequences, FiniteSets, TLC

VARIABLES
    date,          \* parse_ledger's `date` argument (the ledger's label)
    ledger_lines,  \* parse_ledger's `ledger_lines` argument, as a sequence of items
    n_read,        \* how many items the for loop has pulled from ledger_lines
    entries,       \* parse_ledger's `entries` vector
    result,        \* what parse_ledger returned, once it has returned
    line,          \* parse_entry's `line` argument
    pos,           \* how many characters of `line` the char loop has consumed
    st,            \* parse_entry's locals: prev_state, cur_state, kind, amount, ...
    ret,           \* what the latest call of parse_entry returned
    pc,            \* "run" | "ledger" | "entry" | "done" | "filtered" | "exit" | "panic",
                   \* or "caller" where any caller calls Ledger::filter
    matches,       \* run's `matches`: the parsed command line
    NOW,           \* the clock: local year, month and day, and the year in UTC
    directory,     \* the ledger directory, as fs::read_dir lists it
    ledger,        \* run's `ledger`: the Ledger that filter is called on
    filters,       \* the tag slices Ledger::filter has been called with, in order
    out            \* what run returned or printed

\* What run() of main.rs keeps besides parse_ledger's state.
run_vars == <<matches, NOW, directory, ledger, filters, out>>

vars == <<date, ledger_lines, n_read, entries, result, line, pos, st, ret, pc,
          matches, NOW, directory, ledger, filters, out>>

(***************************************************************************)
(* Bounds of the model.                                                    *)
(***************************************************************************)
MaxShort == 3
MaxAmount == 5
MaxComment == 5
MaxLines == 3

(***************************************************************************)
(* Characters.                                                             *)
(***************************************************************************)
\* char::is_ascii_whitespace: U+0020 SPACE, U+0009 TAB, U+000A LF, U+000C FF, U+000D CR
is_ascii_whitespace(chr) ==
    chr \in {32, 9, 10, 12, 13}

\* char::is_ascii_digit: '0'..='9'
is_ascii_digit(chr) ==
    chr \in 48..57

\* char::is_ascii_graphic: U+0021 '!' ..= U+007E '~'
is_ascii_graphic(chr) ==
    chr \in 33..126

\* The regex class \s (Unicode White_Space) over the code points below U+0100.
IsRegexSpace(chr) ==
    chr \in {9, 10, 11, 12, 13, 32, 133, 160}

\* The number of bytes of a character's UTF-8 encoding.
Utf8Len(chr) ==
    IF chr < 128 THEN 1 ELSE IF chr < 2048 THEN 2 ELSE IF chr < 65536 THEN 3 ELSE 4

\* str::char_indices: the byte offset of the i-th character (1-based) of s.
RECURSIVE ByteOffset(_, _)
ByteOffset(s, i) ==
    IF i <= 1 THEN 0 ELSE ByteOffset(s, i - 1) + Utf8Len(s[i - 1])

(***************************************************************************)
(* u64 arithmetic on four 16-bit limbs, least significant limb first.      *)
(***************************************************************************)
LimbBase == 2 ^ 16

U64Zero == <<0, 0, 0, 0>>

\* amount * 10 + digit, computed exactly: the low 64 bits and the carry out of them.
Mul10AddWide(a, digit) ==
    LET t1 == a[1] * 10 + digit
        t2 == a[2] * 10 + (t1 \div LimbBase)
        t3 == a[3] * 10 + (t2 \div LimbBase)
        t4 == a[4] * 10 + (t3 \div LimbBase)
    IN  [low   |-> <<t1 % LimbBase, t2 % LimbBase, t3 % LimbBase, t4 % LimbBase>>,
         carry |-> t4 \div LimbBase]

\* A slip: the character's code is added, not the digit it denotes.
PushDigitRaw(amount, chr) ==
    {[panic |-> FALSE, amount |-> Mul10AddWide(amount, chr).low]}

\* `amount *= 10; amount += chr as u64 - '0' as u64;` on a u64.  The result fits, or
\* the arithmetic overflows: a build with overflow checks panics, one without wraps
\* modulo 2^64.
PushDigit(amount, chr) ==
    LET w == Mul10AddWide(amount, chr - 48)
    IN  IF w.carry = 0
        THEN {[panic |-> FALSE, amount |-> w.low]}
        ELSE {[panic |-> TRUE, amount |-> amount], [panic |-> FALSE, amount |-> w.low]}

(***************************************************************************)
(* parse_entry.                                                            *)
(***************************************************************************)
\* LOOKS_LIKE_COMMENT, ^\s*#.*$ : white space, then '#', then anything but a line feed.
RECURSIVE LooksLikeCommentFrom(_, _)
LooksLikeCommentFrom(s, i) ==
    IF i > Len(s) THEN FALSE
    ELSE IF s[i] = 35 THEN \A j \in (i + 1)..Len(s) : s[j] # 10
    ELSE IF IsRegexSpace(s[i]) THEN LooksLikeCommentFrom(s, i + 1)
    ELSE FALSE

\* A slip: the pattern is anchored at the '#', so leading white space is not allowed.
LooksLikeCommentAnchored(s) ==
    s # <<>> /\ s[1] = 35 /\ \A j \in 2..Len(s) : s[j] # 10

LOOKS_LIKE_COMMENT(s) ==
    LooksLikeCommentFrom(s, 1)

\* The pre-check of parse_entry: `return Err(None)`.
IsSkipped(s) ==
    s = <<>> \/ LOOKS_LIKE_COMMENT(s)

\* The locals of parse_entry as it enters the char loop.
InitialLocals ==
    [prev_state |-> "EntryKind", cur_state |-> "EntryKind",
     kind |-> "Debit", amount |-> U64Zero,
     in_decimal_place |-> FALSE, decimal_place |-> 0,
     comment |-> <<>>, tags |-> <<>>]

\* Outcomes of one iteration of the char loop.
Continue(s) == [tag |-> "continue", st |-> s]
Fail(e) == [tag |-> "error", e |-> e]
Panic == [tag |-> "panic"]

ErrAt(err, idx) == [err |-> err, offset |-> idx]
ErrChr(err, idx, chr) == [err |-> err, offset |-> idx, chr |-> chr]
ErrPlain(err) == [err |-> err]

\* `amount *= 10; amount += ...` inside the loop: the locals after it, or a panic.
WithDigit(s, chr) ==
    {IF o.panic THEN Panic ELSE Continue([s EXCEPT !.amount = o.amount]) :
        o \in PushDigit(s.amount, chr)}

\* (EntryKind, EntryKind)
KindStep(s, idx, chr) ==
    IF chr = 67 THEN {Continue([s EXCEPT !.kind = "Credit", !.cur_state = "Whitespace"])}
    ELSE IF chr = 68 THEN {Continue([s EXCEPT !.kind = "Debit", !.cur_state = "Whitespace"])}
    ELSE {Fail(ErrChr("UnexpectedEntryKind", idx, chr))}

\* A slip: the character after the kind is consumed whatever it is.
WhitespaceStepLax(s, idx, chr) ==
    {Continue([s EXCEPT !.prev_state = "Whitespace", !.cur_state = "Amount"])}

\* (EntryKind, Whitespace)
WhitespaceStep(s, idx, chr) ==
    IF is_ascii_whitespace(chr)
    THEN {Continue([s EXCEPT !.prev_state = "Whitespace", !.cur_state = "Amount"])}
    ELSE {Fail(ErrChr("ExpectedWhitespace", idx, chr))}

\* (Whitespace, Amount)
FirstDigitStep(s, idx, chr) ==
    IF is_ascii_digit(chr)
    THEN WithDigit([s EXCEPT !.prev_state = "Amount"], chr)
    ELSE {Fail(ErrChr("ExpectedDigit", idx, chr))}

\* A slip: the limit on the decimal places is off by one.
ExceedsDecimalPlacesLate(places) ==
    places > 3

\* `if decimal_place > 2`
ExceedsDecimalPlaces(places) ==
    places > 2

\* `if in_decimal_place && decimal_place < 2`
DecimalIncomplete(s) ==
    s.in_decimal_place /\ s.decimal_place < 2

\* (Amount, Amount)
AmountStep(s, idx, chr) ==
    IF is_ascii_digit(chr) THEN
        LET places == IF s.in_decimal_place THEN s.decimal_place + 1 ELSE s.decimal_place
        IN  IF ExceedsDecimalPlaces(places)
            THEN {Fail(ErrAt("TooManyDecimalPlaces", idx))}
            ELSE WithDigit([s EXCEPT !.decimal_place = places], chr)
    ELSE IF chr = 46 THEN
        IF s.in_decimal_place
        THEN {Fail(ErrAt("MultipleDecimalPoints", idx))}
        ELSE {Continue([s EXCEPT !.in_decimal_place = TRUE])}
    ELSE IF chr = 44 THEN
        {Continue(s)}
    ELSE IF is_ascii_whitespace(chr) THEN
        IF DecimalIncomplete(s)
        THEN {Fail(ErrAt("IncompleteDecimal", idx))}
        ELSE {Continue([s EXCEPT !.prev_state = "Comment", !.cur_state = "Comment"])}
    ELSE {Fail(ErrChr("ExpectedDigitOrWhitespace", idx, chr))}

\* tags.last_mut().unwrap().push(chr)
PushToLastTag(tags, chr) ==
    [tags EXCEPT ![Len(tags)] = Append(tags[Len(tags)], chr)]

\* A slip: the '#' that opens a tag goes to the tag only, not to the comment.
CommentStepTagOut(s, idx, chr) ==
    IF chr = 35
    THEN {Continue([s EXCEPT !.tags = Append(s.tags, <<35>>), !.cur_state = "Tag"])}
    ELSE {Continue([s EXCEPT !.comment = Append(s.comment, chr)])}

\* (Comment, Comment)
CommentStep(s, idx, chr) ==
    IF chr = 35
    THEN {Continue([s EXCEPT !.tags = Append(s.tags, <<35>>), !.cur_state = "Tag",
                             !.comment = Append(s.comment, chr)])}
    ELSE {Continue([s EXCEPT !.comment = Append(s.comment, chr)])}

\* A slip: the first character after '#' is handled like the later ones, so that
\* white space right after '#' closes an empty tag.
TagStartStepLax(s, idx, chr) ==
    IF is_ascii_whitespace(chr)
    THEN {Continue([s EXCEPT !.comment = Append(s.comment, chr),
                             !.prev_state = "Comment", !.cur_state = "Comment"])}
    ELSE IF is_ascii_graphic(chr)
    THEN {Continue([s EXCEPT !.comment = Append(s.comment, chr),
                             !.tags = PushToLastTag(s.tags, chr),
                             !.prev_state = "Tag"])}
    ELSE {Fail(ErrChr("InvalidTagCharacter", idx, chr))}

\* (Comment, Tag)
TagStartStep(s, idx, chr) ==
    IF is_ascii_whitespace(chr) THEN {Fail(ErrAt("PrematureTagEnd", idx))}
    ELSE IF is_ascii_graphic(chr)
    THEN {Continue([s EXCEPT !.comment = Append(s.comment, chr),
                             !.tags = PushToLastTag(s.tags, chr),
                             !.prev_state = "Tag"])}
    ELSE {Fail(ErrChr("InvalidTagCharacter", idx, chr))}

\* A slip: white space after a tag moves to a pair (Tag, Comment) of its own, for
\* which the match has no arm.
TagStepToTagComment(s, idx, chr) ==
    IF is_ascii_whitespace(chr)
    THEN {Continue([s EXCEPT !.comment = Append(s.comment, chr),
                             !.cur_state = "Comment"])}
    ELSE IF is_ascii_graphic(chr)
    THEN {Continue([s EXCEPT !.comment = Append(s.comment, chr),
                             !.tags = PushToLastTag(s.tags, chr)])}
    ELSE {Fail(ErrChr("InvalidTagCharacter", idx, chr))}

\* A slip: a tag takes every character that is no white space.
TagStepAnyCharacter(s, idx, chr) ==
    IF is_ascii_whitespace(chr)
    THEN {Continue([s EXCEPT !.comment = Append(s.comment, chr),
                             !.prev_state = "Comment", !.cur_state = "Comment"])}
    ELSE {Continue([s EXCEPT !.comment = Append(s.comment, chr),
                             !.tags = PushToLastTag(s.tags, chr)])}

\* (Tag, Tag)
TagStep(s, idx, chr) ==
    IF is_ascii_whitespace(chr)
    THEN {Continue([s EXCEPT !.comment = Append(s.comment, chr),
                             !.prev_state = "Comment", !.cur_state = "Comment"])}
    ELSE IF is_ascii_graphic(chr)
    THEN {Continue([s EXCEPT !.comment = Append(s.comment, chr),
                             !.tags = PushToLastTag(s.tags, chr)])}
    ELSE {Fail(ErrChr("InvalidTagCharacter", idx, chr))}

\* `match (prev_state, cur_state)` in the char loop: the outcomes of one iteration.
Step(s, idx, chr) ==
    LET t == <<s.prev_state, s.cur_state>>
    IN  IF t = <<"EntryKind", "EntryKind">> THEN KindStep(s, idx, chr)
        ELSE IF t = <<"EntryKind", "Whitespace">> THEN WhitespaceStep(s, idx, chr)
        ELSE IF t = <<"Whitespace", "Amount">> THEN FirstDigitStep(s, idx, chr)
        ELSE IF t = <<"Amount", "Amount">> THEN AmountStep(s, idx, chr)
        ELSE IF t = <<"Comment", "Comment">> THEN CommentStep(s, idx, chr)
        ELSE IF t = <<"Comment", "Tag">> THEN TagStartStep(s, idx, chr)
        ELSE IF t = <<"Tag", "Tag">> THEN TagStep(s, idx, chr)
        ELSE {Fail(ErrPlain("UnexpectedTransition"))}

\* The order of String: lexicographic on the bytes (here: on ASCII code points).
RECURSIVE StrLess(_, _)
StrLess(a, b) ==
    IF b = <<>> THEN FALSE
    ELSE IF a = <<>> THEN TRUE
    ELSE IF a[1] # b[1] THEN a[1] < b[1]
    ELSE StrLess(Tail(a), Tail(b))

\* Insert x into the sorted sequence s, after the elements not greater than it.
RECURSIVE Insert(_, _)
Insert(s, x) ==
    IF s = <<>> THEN <<x>>
    ELSE IF StrLess(x, s[1]) THEN <<x>> \o s
    ELSE <<s[1]>> \o Insert(Tail(s), x)

\* A slip: the tags are left in the order of the line.
sort_skipped(v) ==
    v

\* tags.sort_unstable()
RECURSIVE sort_unstable(_)
sort_unstable(v) ==
    IF v = <<>> THEN <<>>
    ELSE Insert(sort_unstable(SubSeq(v, 1, Len(v) - 1)), v[Len(v)])

\* tags.dedup(): consecutive repeated elements are removed.
RECURSIVE dedup(_)
dedup(v) ==
    IF Len(v) <= 1 THEN v
    ELSE IF v[1] = v[2] THEN dedup(Tail(v))
    ELSE <<v[1]>> \o dedup(Tail(v))

\* A slip: the end of the line is accepted in every Comment or Tag state.
AcceptsAtEolAnyTag(prev_state, cur_state) ==
    cur_state \in {"Comment", "Tag"}

\* The final `match (prev_state, cur_state)`: is the end of the line accepted.
AcceptsAtEol(prev_state, cur_state) ==
    \/ prev_state = "Comment" /\ cur_state = "Comment"
    \/ prev_state = "Tag" /\ cur_state = "Tag"

\* What parse_entry returns once the char loop has consumed the line.
AtEol(s) ==
    LET tags == dedup(sort_unstable(s.tags))
    IN  IF AcceptsAtEol(s.prev_state, s.cur_state)
        THEN [tag |-> "Ok",
              entry |-> [kind |-> s.kind, amount |-> s.amount,
                         comment |-> s.comment, tags |-> tags]]
        ELSE [tag |-> "Err", e |-> ErrPlain("MissingComment")]

\* parse_entry's char loop from the i-th character of l on, as a function of the
\* line (where the arithmetic overflows: the wrapped amount).
RECURSIVE RunFrom(_, _, _)
RunFrom(s, l, i) ==
    IF i > Len(l) THEN AtEol(s)
    ELSE LET o == CHOOSE x \in Step(s, ByteOffset(l, i), l[i]) : x.tag # "panic"
         IN  IF o.tag = "error" THEN [tag |-> "Err", e |-> o.e]
             ELSE RunFrom(o.st, l, i + 1)

\* parse_entry as a function of the line.
parse_entry(l) ==
    IF IsSkipped(l) THEN [tag |-> "Skip"] ELSE RunFrom(InitialLocals, l, 1)

(***************************************************************************)
(* The lines and streams the model reads.  A line never holds a line feed: *)
(* BufRead::lines splits the file at them.                                 *)
(***************************************************************************)
SeqsUpTo(S, n) ==
    UNION {[1..k -> S] : k \in 0..n}

\* 'C' 'D' 'X' ' ' TAB '1' '.' ',' '#' 'a' U+0001 U+00E9 (two bytes) U+000B
ShortAlphabet ==
    {67, 68, 88, 32, 9, 49, 46, 44, 35, 97, 1, 233, 11}

\* '0' '1' '.' ',' ' ' 'a' U+00E9 (two bytes)
AmountAlphabet ==
    {48, 49, 46, 44, 32, 97, 233}

\* ' ' '#' 'a' 'b' U+00E9 (two bytes)
CommentAlphabet ==
    {32, 35, 97, 98, 233}

\* Every line of at most MaxShort characters.
ShortLines ==
    SeqsUpTo(ShortAlphabet, MaxShort)

\* "D " and then every amount field and tail of at most MaxAmount characters.
AmountLines ==
    {<<68, 32>> \o a : a \in SeqsUpTo(AmountAlphabet, MaxAmount)}

\* "C 1 " and then every comment of at most MaxComment characters.
CommentLines ==
    {<<67, 32, 49, 32>> \o c : c \in SeqsUpTo(CommentAlphabet, MaxComment)}

\* The lines of the unit tests (tests::test_parse_entry, tests::test_parse_ledger).
TestLines ==
    {
        <<>>,
        \* "# this is a comment"
        <<35, 32, 116, 104, 105, 115, 32, 105, 115, 32, 97, 32, 99, 111, 109, 109, 101, 110, 116>>,
        \* "   # this is a comment"
        <<32, 32, 32, 35, 32, 116, 104, 105, 115, 32, 105, 115, 32, 97, 32, 99, 111, 109, 109, 101, 110, 116>>,
        <<68, 49, 46, 48, 48>>,                                \* "D1.00"
        <<68, 32, 49, 46, 48, 48, 102, 111, 111>>,             \* "D 1.00foo"
        <<88, 32, 49, 46, 48, 48, 32, 116, 101, 115, 116>>,    \* "X 1.00 test"
        <<67, 32, 49, 46, 48, 48, 32, 116, 101, 115, 116>>,    \* "C 1.00 test"
        <<68, 32, 49, 46, 48, 48, 32, 116, 101, 115, 116>>,    \* "D 1.00 test"
        <<68, 32, 97, 98, 99>>,                                \* "D abc"
        <<68, 32, 49, 46, 48, 48, 48>>,                        \* "D 1.000"
        <<68, 32, 49, 46, 48, 46, 48>>,                        \* "D 1.0.0"
        <<68, 32, 49, 48, 48, 46, 48, 48, 32, 116, 101, 115, 116>>,  \* "D 100.00 test"
        <<67, 32, 49, 48, 48, 32, 116, 101, 115, 116>>,        \* "C 100 test"
        <<68, 32, 49>>,                                        \* "D 1"
        <<68, 32, 49, 32, 35, 32, 98, 97, 114>>,               \* "D 1 # bar"
        <<68, 32, 49, 32, 102, 111, 111, 32, 35, 32, 98, 97, 114>>,  \* "D 1 foo # bar"
        <<68, 32, 49, 32, 102, 111, 111, 32, 35, 1>>,          \* "D 1 foo #\x01"
        <<68, 32, 49, 32, 35, 102, 111, 111, 32, 35, 1>>,      \* "D 1 #foo #\x01"
        \* "C 1.00 foo bar baz"
        <<67, 32, 49, 46, 48, 48, 32, 102, 111, 111, 32, 98, 97, 114, 32, 98, 97, 122>>,
        \* "C 1.00 foo #bar baz"
        <<67, 32, 49, 46, 48, 48, 32, 102, 111, 111, 32, 35, 98, 97, 114, 32, 98, 97, 122>>,
        \* "C 1.00 foo #bar #baz"
        <<67, 32, 49, 46, 48, 48, 32, 102, 111, 111, 32, 35, 98, 97, 114, 32, 35, 98, 97, 122>>,
        <<67, 32, 49, 46, 48, 48, 32, 35, 102, 111, 111>>,     \* "C 1.00 #foo"
        <<68, 32, 49, 46, 48, 48, 32, 35, 98, 97, 114>>        \* "D 1.00 #bar"
    }

\* Amounts at and beyond the width of a u64, and longer entries.
LongLines ==
    {
        \* "D 18446744073709551615 x"  (2^64 - 1)
        <<68, 32, 49, 56, 52, 52, 54, 55, 52, 52, 48, 55, 51, 55, 48, 57, 53, 53, 49, 54, 49, 53, 32, 120>>,
        \* "D 18446744073709551616 x"  (2^64)
        <<68, 32, 49, 56, 52, 52, 54, 55, 52, 52, 48, 55, 51, 55, 48, 57, 53, 53, 49, 54, 49, 54, 32, 120>>,
        \* "C 99999999999999999999 x"
        <<67, 32, 57, 57, 57, 57, 57, 57, 57, 57, 57, 57, 57, 57, 57, 57, 57, 57, 57, 57, 57, 57, 32, 120>>,
        \* "C 1,000.00 rent #home"
        <<67, 32, 49, 44, 48, 48, 48, 46, 48, 48, 32, 114, 101, 110, 116, 32, 35, 104, 111, 109, 101>>,
        \* "C 1 #b #a #b"
        <<67, 32, 49, 32, 35, 98, 32, 35, 97, 32, 35, 98>>
    }

\* The lines parse_entry is run on, each as a stream of its own.
EntryLines ==
    ShortLines \cup AmountLines \cup CommentLines \cup TestLines \cup LongLines

\* An item of the stream: io::Result<String>.
OkLine(l) == [ok |-> TRUE, line |-> l]
ReadError == [ok |-> FALSE, line |-> <<>>]

\* The items of the longer streams: "", " #c", "C 1 #a", "D 2 b", "X", "D 1", a failed read.
LedgerItems ==
    {OkLine(<<>>), OkLine(<<32, 35, 99>>), OkLine(<<67, 32, 49, 32, 35, 97>>),
     OkLine(<<68, 32, 50, 32, 98>>), OkLine(<<88>>), OkLine(<<68, 32, 49>>), ReadError}

\* The labels main.rs passes: "*" for all ledgers, a year, a period.
Labels ==
    {"*", "2020-01"}

NoResult == [tag |-> "none"]

Init ==
    /\ \/ date = "*" /\ ledger_lines \in {<<OkLine(l)>> : l \in EntryLines}
       \/ date \in Labels /\ ledger_lines \in SeqsUpTo(LedgerItems, MaxLines)
    /\ n_read = 0
    /\ entries = <<>>
    /\ result = NoResult
    /\ line = <<>>
    /\ pos = 0
    /\ st = InitialLocals
    /\ ret = NoResult
    /\ pc = "ledger"
    /\ matches = NoResult
    /\ NOW = NoResult
    /\ directory = NoResult
    /\ ledger = NoResult
    /\ filters = NoResult
    /\ out = NoResult

(***************************************************************************)
(* parse_ledger.                                                           *)
(***************************************************************************)
\* Err(anyhow!("ledger read failed: {}", e))
ReadFailed == [tag |-> "Err", msg |-> "ledger read failed"]

\* Err(anyhow!("parse error on line {}: {}", idx + 1, e)), idx the enumerate index
ParseFailed(idx, e) == [tag |-> "Err", msg |-> "parse error", line |-> idx + 1, e |-> e]

\* Ok(Ledger { date, entries })
Ledger(d, es) == [tag |-> "Ok", ledger |-> [date |-> d, entries |-> es]]

\* The for loop pulls the next item: a failed read ends parse_ledger; otherwise
\* parse_entry is called, and returns Err(None) at once for a blank or comment line.
NextLine ==
    /\ pc = "ledger"
    /\ n_read < Len(ledger_lines)
    /\ n_read' = n_read + 1
    /\ LET item == ledger_lines[n_read + 1]
       IN  IF ~item.ok
           THEN /\ result' = ReadFailed
                /\ pc' = "done"
                /\ UNCHANGED <<line, pos, st, ret>>
           ELSE /\ line' = item.line
                /\ pos' = 0
                /\ st' = InitialLocals
                /\ result' = result
                /\ IF IsSkipped(item.line)
                   THEN ret' = [tag |-> "Skip"] /\ pc' = "ledger"
                   ELSE ret' = NoResult /\ pc' = "entry"
    /\ UNCHANGED <<date, ledger_lines, entries>>
    /\ UNCHANGED run_vars

\* One iteration of parse_entry's char loop.  An error is returned through
\* parse_ledger, which returns it with the line's number.
ParseChar ==
    /\ pc = "entry"
    /\ pos < Len(line)
    /\ \E o \in Step(st, ByteOffset(line, pos + 1), line[pos + 1]) :
          /\ pos' = pos + 1
          /\ IF o.tag = "continue"
             THEN st' = o.st /\ pc' = "entry" /\ UNCHANGED <<ret, result>>
             ELSE IF o.tag = "error"
             THEN /\ ret' = [tag |-> "Err", e |-> o.e]
                  /\ result' = ParseFailed(n_read - 1, o.e)
                  /\ pc' = "done"
                  /\ st' = st
             ELSE pc' = "panic" /\ UNCHANGED <<st, ret, result>>
    /\ UNCHANGED <<date, ledger_lines, n_read, entries, line>>
    /\ UNCHANGED run_vars

\* A slip: a line that fails at its end is dropped and the loop goes on.
ParseEolLenient ==
    /\ pc = "entry"
    /\ pos = Len(line)
    /\ ret' = AtEol(st)
    /\ entries' = IF ret'.tag = "Ok" THEN Append(entries, ret'.entry) ELSE entries
    /\ pc' = "ledger"
    /\ UNCHANGED <<date, ledger_lines, n_read, result, line, pos, st>>
    /\ UNCHANGED run_vars

\* The char loop has consumed the line: the tags are sorted and deduplicated, and
\* parse_entry returns the entry or the end-of-line error; parse_ledger pushes the
\* entry and goes on, or returns the error.
ParseEol ==
    /\ pc = "entry"
    /\ pos = Len(line)
    /\ ret' = AtEol(st)
    /\ IF ret'.tag = "Ok"
       THEN /\ entries' = Append(entries, ret'.entry)
            /\ pc' = "ledger"
            /\ result' = result
       ELSE /\ entries' = entries
            /\ pc' = "done"
            /\ result' = ParseFailed(n_read - 1, ret'.e)
    /\ UNCHANGED <<date, ledger_lines, n_read, line, pos, st>>
    /\ UNCHANGED run_vars

\* The stream is exhausted: parse_ledger returns the ledger.
ReturnLedger ==
    /\ pc = "ledger"
    /\ n_read = Len(ledger_lines)
    /\ result' = Ledger(date, entries)
    /\ pc' = "done"
    /\ UNCHANGED <<date, ledger_lines, n_read, entries, line, pos, st, ret>>
    /\ UNCHANGED run_vars

Next ==
    \/ NextLine
    \/ ParseChar
    \/ ParseEol
    \/ ReturnLedger

Spec == Init /\ [][Next]_vars

(***************************************************************************)
(* What the properties below read off a line's text.                       *)
(***************************************************************************)
\* The index of the ASCII white space that ends the amount field of line l (the
\* first one from the third character on), or Len(l) + 1 when there is none.
AmountEnd(l) ==
    LET ends == {j \in 3..Len(l) : is_ascii_whitespace(l[j])}
    IN  IF ends = {} THEN Len(l) + 1 ELSE CHOOSE j \in ends : \A k \in ends : j <= k

\* The amount field: from the third character up to the white space that ends it.
AmountField(l) ==
    SubSeq(l, 3, AmountEnd(l) - 1)

\* What follows the white space that ends the amount field.
AfterAmount(l) ==
    SubSeq(l, AmountEnd(l) + 1, Len(l))

NotSeparator(chr) ==
    chr \notin {46, 44}

\* The amount field's characters in typed order with every '.' and ',' dropped,
\* each as the digit it denotes.
TypedDigits(l) ==
    LET kept == SelectSeq(AmountField(l), NotSeparator)
    IN  [i \in 1..Len(kept) |-> kept[i] - 48]

\* A decimal numeral without its leading zeros ("0" for zero).
RECURSIVE StripZeros(_)
StripZeros(d) ==
    IF Len(d) > 1 /\ d[1] = 0 THEN StripZeros(Tail(d)) ELSE d

\* A u64 divided by ten: quotient and remainder, by long division on the limbs.
DivMod10(a) ==
    LET n4 == a[4]
        n3 == (n4 % 10) * LimbBase + a[3]
        n2 == (n3 % 10) * LimbBase + a[2]
        n1 == (n2 % 10) * LimbBase + a[1]
    IN  [q |-> <<n1 \div 10, n2 \div 10, n3 \div 10, n4 \div 10>>, r |-> n1 % 10]

RECURSIVE U64Digits(_)
U64Digits(a) ==
    IF a = U64Zero THEN <<>> ELSE U64Digits(DivMod10(a).q) \o <<DivMod10(a).r>>

\* The decimal numeral of a u64.
U64Decimal(a) ==
    IF a = U64Zero THEN <<0>> ELSE U64Digits(a)

\* a is before b in the lexicographic order of strings.
Before(a, b) ==
    \E k \in 1..Len(b) :
        /\ \A i \in 1..(k - 1) : i <= Len(a) /\ a[i] = b[i]
        /\ k > Len(a) \/ (k <= Len(a) /\ a[k] < b[k])

\* The decimal numeral of 2^64.
TwoTo64 ==
    <<1, 8, 4, 4, 6, 7, 4, 4, 0, 7, 3, 7, 0, 9, 5, 5, 1, 6, 1, 6>>

\* The numeral d denotes a value below 2^64.
BelowTwoTo64(d) ==
    \/ Len(StripZeros(d)) < Len(TwoTo64)
    \/ Len(StripZeros(d)) = Len(TwoTo64) /\ Before(StripZeros(d), TwoTo64)

\* parse_entry has returned an entry or an error for `line`.
Returned ==
    ret.tag \in {"Ok", "Err"}

Accepted ==
    ret.tag = "Ok"

FailedWith(e) ==
    ret.tag = "Err" /\ ret.e = e

\* The step makes parse_entry return the error e.
FailsWith(e) ==
    ret'.tag = "Err" /\ ret'.e = e

(***************************************************************************)
(* C1.  For every accepted entry line whose amount digits denote a value   *)
(* below 2^64, the entry's amount is the base-10 integer that the amount   *)
(* field's digits form in typed order once every '.' and ',' is dropped:   *)
(* no scale factor is applied.                                             *)
(***************************************************************************)
AmountAsTyped ==
    Accepted /\ BelowTwoTo64(TypedDigits(line))
        => U64Decimal(ret.entry.amount) = StripZeros(TypedDigits(line))

\* "1.00" gives 100, "100.00" gives 10000, "100" gives 100.
AmountExamples ==
    /\ Accepted /\ AmountField(line) = <<49, 46, 48, 48>>
          => U64Decimal(ret.entry.amount) = <<1, 0, 0>>
    /\ Accepted /\ AmountField(line) = <<49, 48, 48, 46, 48, 48>>
          => U64Decimal(ret.entry.amount) = <<1, 0, 0, 0, 0>>
    /\ Accepted /\ AmountField(line) = <<49, 48, 48>>
          => U64Decimal(ret.entry.amount) = <<1, 0, 0>>

AmountIsTypedDigits ==
    AmountAsTyped /\ AmountExamples

\* "D 100.00 test" has been accepted with amount 10000.
AmountWitness ==
    /\ Accepted
    /\ AmountField(line) = <<49, 48, 48, 46, 48, 48>>
    /\ ret.entry.amount = <<10000, 0, 0, 0>>
    /\ ret.entry.comment # <<>>

(***************************************************************************)
(* C2.  An entry line begins with a kind character, one ASCII white space  *)
(* and an ASCII digit: 'C' yields Credit and 'D' Debit, any other first    *)
(* character fails with UnexpectedEntryKind at offset 0, a second          *)
(* character that is no white space with ExpectedWhitespace at offset 1,   *)
(* a third that is no digit with ExpectedDigit at offset 2.                *)
(***************************************************************************)
IsKindChar(chr) ==
    chr \in {67, 68}

KindOf(chr) ==
    IF chr = 67 THEN "Credit" ELSE "Debit"

LineHead ==
    Returned =>
        /\ Len(line) >= 1
        /\ ~IsKindChar(line[1])
              => FailedWith(ErrChr("UnexpectedEntryKind", 0, line[1]))
        /\ IsKindChar(line[1]) /\ Len(line) >= 2 /\ ~is_ascii_whitespace(line[2])
              => FailedWith(ErrChr("ExpectedWhitespace", 1, line[2]))
        /\ IsKindChar(line[1]) /\ Len(line) >= 3 /\ is_ascii_whitespace(line[2])
                               /\ ~is_ascii_digit(line[3])
              => FailedWith(ErrChr("ExpectedDigit", 2, line[3]))
        /\ Accepted
              => /\ Len(line) >= 3
                 /\ IsKindChar(line[1])
                 /\ is_ascii_whitespace(line[2])
                 /\ is_ascii_digit(line[3])
                 /\ ret.entry.kind = KindOf(line[1])

\* A second white space where the amount's first digit is due has been refused.
LineHeadWitness ==
    /\ line = <<67, 32, 32>>
    /\ FailedWith(ErrChr("ExpectedDigit", 2, 32))

(***************************************************************************)
(* C3.  After its first digit the amount field takes a decimal point only  *)
(* with exactly two digits after it: a third digit after the point fails   *)
(* with TooManyDecimalPlaces, a second '.' with MultipleDecimalPoints, the *)
(* ending white space with a point open and fewer than two digits after it *)
(* with IncompleteDecimal, and a character that is no digit, '.', ',' or   *)
(* ASCII white space with ExpectedDigitOrWhitespace, each at the offset of *)
(* the character.  So an accepted amount field has no '.', or one '.' with *)
(* exactly two digits after it.                                            *)
(***************************************************************************)
HasPoint(f) ==
    \E i \in 1..Len(f) : f[i] = 46

\* The number of digits of f after its first '.'.
DigitsAfterPoint(f) ==
    LET p == CHOOSE i \in 1..Len(f) : f[i] = 46 /\ \A k \in 1..(i - 1) : f[k] # 46
    IN  Cardinality({i \in (p + 1)..Len(f) : is_ascii_digit(f[i])})

\* The char loop is about to read a character of the amount field after its first digit.
InAmountField ==
    /\ pc = "entry"
    /\ pos >= 3
    /\ pos < Len(line)
    /\ \A j \in 3..pos : ~is_ascii_whitespace(line[j])

\* What reading the next character of the amount field leads to.
AmountFieldStep ==
    InAmountField =>
        LET chr == line[pos + 1]
            f == SubSeq(line, 3, pos)
            full == HasPoint(f) /\ DigitsAfterPoint(f) >= 2
            open == HasPoint(f) /\ DigitsAfterPoint(f) < 2
        IN  /\ ByteOffset(line, pos + 1) = pos
            /\ is_ascii_digit(chr) /\ full
                  => FailsWith(ErrAt("TooManyDecimalPlaces", pos))
            /\ is_ascii_digit(chr) /\ ~full
                  => pc' \in {"entry", "panic"}
            /\ chr = 46 /\ HasPoint(f)
                  => FailsWith(ErrAt("MultipleDecimalPoints", pos))
            /\ chr = 46 /\ ~HasPoint(f)
                  => pc' = "entry"
            /\ chr = 44
                  => pc' = "entry"
            /\ is_ascii_whitespace(chr) /\ open
                  => FailsWith(ErrAt("IncompleteDecimal", pos))
            /\ is_ascii_whitespace(chr) /\ ~open
                  => pc' = "entry" /\ st'.cur_state = "Comment"
            /\ ~is_ascii_digit(chr) /\ chr \notin {46, 44} /\ ~is_ascii_whitespace(chr)
                  => FailsWith(ErrChr("ExpectedDigitOrWhitespace", pos, chr))

\* An accepted amount field: digits, ',' and at most one '.', which exactly two digits follow.
AmountFieldShape(f) ==
    /\ \A i \in 1..Len(f) : is_ascii_digit(f[i]) \/ f[i] \in {46, 44}
    /\ Cardinality({i \in 1..Len(f) : f[i] = 46}) <= 1
    /\ HasPoint(f) => DigitsAfterPoint(f) = 2

DecimalPointRule ==
    [][AmountFieldStep /\ (Accepted' => AmountFieldShape(AmountField(line')))]_vars

\* "D 1.000" has failed at its third decimal place.
DecimalPointWitness ==
    /\ line = <<68, 32, 49, 46, 48, 48, 48>>
    /\ FailedWith(ErrAt("TooManyDecimalPlaces", 6))

(***************************************************************************)
(* C4.  At the end of the line parse_entry accepts the entry exactly when  *)
(* the machine ended in the Comment field or in Tag collection after at    *)
(* least one tag character; it fails with MissingComment when the line     *)
(* ended earlier (EntryKind, expect-whitespace or Amount state) and also   *)
(* when its last character is the '#' that switched the machine to tag     *)
(* collection.                                                             *)
(***************************************************************************)
\* The tag being collected holds only its '#'.
TagJustOpened ==
    /\ st.cur_state = "Tag"
    /\ st.tags # <<>>
    /\ st.tags[Len(st.tags)] = <<35>>
    /\ line[Len(line)] = 35

\* At the end of the line parse_entry returns the entry if `accepting`, and the
\* MissingComment error if not.
EndOfLineStep(accepting) ==
    pc = "entry" /\ pos = Len(line) =>
        IF accepting THEN ret'.tag = "Ok" ELSE FailsWith(ErrPlain("MissingComment"))

EndOfLineRule ==
    [][EndOfLineStep(st.cur_state \in {"Comment", "Tag"} /\ ~TagJustOpened)]_vars

\* The claim as stated: every line that ends in the Comment field or in Tag
\* collection is accepted, a line ending in the '#' that opened a tag included.
EndOfLineAsClaimed ==
    [][EndOfLineStep(st.cur_state \in {"Comment", "Tag"})]_vars

\* "C 1 a #" has been refused at the end of the line.
EndOfLineWitness ==
    /\ line = <<67, 32, 49, 32, 97, 32, 35>>
    /\ FailedWith(ErrPlain("MissingComment"))
    /\ st.cur_state = "Tag"

(***************************************************************************)
(* C5.  A line with no comment after the amount field is rejected with     *)
(* MissingComment, whether it ends at the last amount character or after   *)
(* the white space that ends the amount; so every accepted entry has a     *)
(* comment that is not empty.                                              *)
(***************************************************************************)
\* The line is well formed up to the end of its amount field.
WellFormedAmount(l) ==
    /\ Len(l) >= 3
    /\ IsKindChar(l[1])
    /\ is_ascii_whitespace(l[2])
    /\ is_ascii_digit(l[3])
    /\ AmountFieldShape(AmountField(l))

CommentRequired ==
    /\ Returned /\ WellFormedAmount(line) /\ AfterAmount(line) = <<>>
          => FailedWith(ErrPlain("MissingComment"))
    /\ Accepted => ret.entry.comment # <<>>

(***************************************************************************)
(* C6.  In the comment field '#' opens a tag.  ASCII white space right     *)
(* after the '#' fails with PrematureTagEnd at the white space's offset; a *)
(* character that is neither ASCII white space nor ASCII graphic fails,    *)
(* while a tag is collected, with InvalidTagCharacter at its offset; the   *)
(* first white space after at least one tag character closes the tag and   *)
(* returns to the comment, so that each of several tags is collected.      *)
(***************************************************************************)
ToSet(v) ==
    {v[i] : i \in 1..Len(v)}

\* The index of the first character of c from index i on that satisfies Test, or
\* Len(c) + 1.
FirstFrom(c, i, Test(_)) ==
    LET hits == {j \in i..Len(c) : Test(c[j])}
    IN  IF hits = {} THEN Len(c) + 1 ELSE CHOOSE j \in hits : \A k \in hits : j <= k

IsHash(chr) ==
    chr = 35

\* The tag tokens of the comment c in the order of the line: each runs from a '#'
\* outside a token up to the next ASCII white space or the end.
RECURSIVE TagTokens(_)
TagTokens(c) ==
    LET i == FirstFrom(c, 1, IsHash)
        j == FirstFrom(c, i, is_ascii_whitespace)
    IN  IF i > Len(c) THEN <<>>
        ELSE <<SubSeq(c, i, j - 1)>> \o TagTokens(SubSeq(c, j, Len(c)))

\* The token that the end of c is inside of, or <<>> if it is inside none.
OpenTag(c) ==
    LET last_ws == {j \in 1..Len(c) : is_ascii_whitespace(c[j])}
        start == IF last_ws = {} THEN 1
                 ELSE 1 + CHOOSE j \in last_ws : \A k \in last_ws : k <= j
        i == FirstFrom(c, start, IsHash)
    IN  SubSeq(c, i, Len(c))

\* The char loop is about to read a character of the comment.
InCommentField ==
    /\ pc = "entry"
    /\ pos < Len(line)
    /\ pos >= 4
    /\ AmountEnd(line) <= pos

\* What reading the next character of the comment leads to.
TagStepRule ==
    InCommentField =>
        LET chr == line[pos + 1]
            idx == ByteOffset(line, pos + 1)
            tag == OpenTag(SubSeq(line, AmountEnd(line) + 1, pos))
        IN  /\ tag = <<>> /\ chr = 35
                  => pc' = "entry" /\ st'.tags = Append(st.tags, <<35>>)
            /\ tag = <<>> /\ chr # 35
                  => pc' = "entry" /\ st'.tags = st.tags
            /\ tag = <<35>> /\ is_ascii_whitespace(chr)
                  => FailsWith(ErrAt("PrematureTagEnd", idx))
            /\ tag # <<>> /\ ~is_ascii_whitespace(chr) /\ ~is_ascii_graphic(chr)
                  => FailsWith(ErrChr("InvalidTagCharacter", idx, chr))
            /\ tag # <<>> /\ is_ascii_graphic(chr)
                  => /\ pc' = "entry"
                     /\ st'.tags = [st.tags EXCEPT ![Len(st.tags)] = Append(tag, chr)]
            /\ Len(tag) >= 2 /\ is_ascii_whitespace(chr)
                  => /\ pc' = "entry"
                     /\ st'.cur_state = "Comment"
                     /\ st'.tags = st.tags
                     /\ st.tags[Len(st.tags)] = tag

TagRule ==
    [][/\ TagStepRule
       /\ ret'.tag = "Ok" => st.tags = TagTokens(AfterAmount(line))]_vars

\* "D 1 foo # bar" has failed at the white space after its '#'.
TagWitness ==
    /\ line = <<68, 32, 49, 32, 102, 111, 111, 32, 35, 32, 98, 97, 114>>
    /\ FailedWith(ErrAt("PrematureTagEnd", 9))

(***************************************************************************)
(* C7.  The tags of an accepted entry are sorted ascending and hold no     *)
(* duplicates, whatever the order and the multiplicity of the tag tokens   *)
(* on the line: they are the ascending enumeration of the set of tokens,   *)
(* so lines with the same tokens in another order or multiplicity yield    *)
(* equal tags.                                                             *)
(***************************************************************************)
StrictlyAscending(v) ==
    \A i \in 1..(Len(v) - 1) : Before(v[i], v[i + 1])

TagsSortedUnique ==
    Accepted =>
        /\ StrictlyAscending(ret.entry.tags)
        /\ ToSet(ret.entry.tags) = ToSet(TagTokens(AfterAmount(line)))

\* "C 1 #b #a #b" has been accepted with the tags "#a", "#b".
TagsSortedWitness ==
    /\ Accepted
    /\ TagTokens(AfterAmount(line)) = <<<<35, 98>>, <<35, 97>>, <<35, 98>>>>
    /\ ret.entry.tags = <<<<35, 97>>, <<35, 98>>>>

(***************************************************************************)
(* C8.  The comment of an accepted entry is the rest of the line after the *)
(* white space that ended the amount field, character for character, so    *)
(* every tag occurs in the comment as a substring.                         *)
(***************************************************************************)
IsSubstring(t, c) ==
    \E i \in 0..(Len(c) - Len(t)) : SubSeq(c, i + 1, i + Len(t)) = t

CommentVerbatim ==
    Accepted =>
        /\ ret.entry.comment = AfterAmount(line)
        /\ \A i \in 1..Len(ret.entry.tags) : IsSubstring(ret.entry.tags[i], ret.entry.comment)

\* "C 1.00 foo #bar #baz" has been accepted with its two tags.
CommentWitness ==
    /\ Accepted
    /\ ret.entry.comment = <<102, 111, 111, 32, 35, 98, 97, 114, 32, 35, 98, 97, 122>>
    /\ Len(ret.entry.tags) = 2

(***************************************************************************)
(* C9.  parse_entry signals Skip, neither an entry nor an error, for the   *)
(* empty line and for every line of optional leading white space, a '#'    *)
(* and anything; parse_ledger adds no entry for such a line and goes on to  *)
(* the next line instead of returning.                                     *)
(***************************************************************************)
\* The empty line, or white space, then '#', then anything.
BlankOrComment(l) ==
    \/ l = <<>>
    \/ \E k \in 1..Len(l) : l[k] = 35 /\ \A j \in 1..(k - 1) : is_ascii_whitespace(l[j])

\* The for loop is about to pull a line that read well.
AboutToRead ==
    /\ pc = "ledger"
    /\ n_read < Len(ledger_lines)
    /\ ledger_lines[n_read + 1].ok

SkipRule ==
    [][AboutToRead /\ BlankOrComment(ledger_lines[n_read + 1].line)
          => /\ ret'.tag = "Skip"
             /\ entries' = entries
             /\ n_read' = n_read + 1
             /\ result' = NoResult
             /\ pc' = "ledger"]_vars

\* A stream of " #c", "C 1 #a", "D 2 b" has given a ledger of two entries.
SkipWitness ==
    /\ ledger_lines = <<OkLine(<<32, 35, 99>>), OkLine(<<67, 32, 49, 32, 35, 97>>),
                        OkLine(<<68, 32, 50, 32, 98>>)>>
    /\ result.tag = "Ok"
    /\ Len(result.ledger.entries) = 2

(***************************************************************************)
(* C10.  parse_ledger is all-or-nothing: if a line of the stream fails to  *)
(* read or to parse, it returns an error and no ledger, and consumes no    *)
(* line after the first failing one; otherwise it returns a ledger with    *)
(* the given label whose entries are the parsed lines that were not        *)
(* skipped, one per line, in the order of the stream.                      *)
(***************************************************************************)
\* The item fails to read or to parse.
ItemFails(item) ==
    ~item.ok \/ parse_entry(item.line).tag = "Err"

\* The index of the first failing item of the stream, or 0.
FirstFailure(stream) ==
    LET bad == {i \in 1..Len(stream) : ItemFails(stream[i])}
    IN  IF bad = {} THEN 0 ELSE CHOOSE i \in bad : \A k \in bad : i <= k

\* The entries of the stream's lines, those skipped left out, in stream order.
RECURSIVE EntriesOf(_)
EntriesOf(stream) ==
    IF stream = <<>> THEN <<>>
    ELSE LET r == parse_entry(stream[Len(stream)].line)
             before == EntriesOf(SubSeq(stream, 1, Len(stream) - 1))
         IN  IF r.tag = "Ok" THEN Append(before, r.entry) ELSE before

AllOrNothing ==
    LET f == FirstFailure(ledger_lines)
    IN  /\ f # 0 => n_read <= f
        /\ pc = "done" /\ f # 0
              => /\ result.tag = "Err"
                 /\ "ledger" \notin DOMAIN result
                 /\ n_read = f
        /\ pc = "done" /\ f = 0
              => /\ result = Ledger(date, EntriesOf(ledger_lines))
                 /\ n_read = Len(ledger_lines)

\* A stream of "C 1 #a", "D 1", "D 2 b" has failed at its second line with the
\* third line not read.
AllOrNothingWitness ==
    /\ ledger_lines = <<OkLine(<<67, 32, 49, 32, 35, 97>>), OkLine(<<68, 32, 49>>),
                        OkLine(<<68, 32, 50, 32, 98>>)>>
    /\ pc = "done"
    /\ result = ParseFailed(1, ErrPlain("MissingComment"))
    /\ n_read = 2
    /\ Len(entries) = 1

(***************************************************************************)
(* Dates: parse_date, and the previous month as run computes it.           *)
(***************************************************************************)
\* The static map from month names to month numbers: {"jan" => 1, "january" => 1,
\* "feb" => 2, ..., "december" => 12}, each key as its sequence of code points.
MONTH_MAP ==
    {
     <<<<106, 97, 110>>, 1>>,
     <<<<106, 97, 110, 117, 97, 114, 121>>, 1>>,
     <<<<102, 101, 98>>, 2>>,
     <<<<102, 101, 98, 114, 117, 97, 114, 121>>, 2>>,
     <<<<109, 97, 114>>, 3>>,
     <<<<109, 97, 114, 99, 104>>, 3>>,
     <<<<97, 112, 114>>, 4>>,
     <<<<97, 112, 114, 105, 108>>, 4>>,
     <<<<109, 97, 121>>, 5>>,
     <<<<106, 117, 110>>, 6>>,
     <<<<106, 117, 110, 101>>, 6>>,
     <<<<106, 117, 108>>, 7>>,
     <<<<106, 117, 108, 121>>, 7>>,
     <<<<97, 117, 103>>, 8>>,
     <<<<97, 117, 103, 117, 115, 116>>, 8>>,
     <<<<115, 101, 112>>, 9>>,
     <<<<115, 101, 112, 116, 101, 109, 98, 101, 114>>, 9>>,
     <<<<111, 99, 116>>, 10>>,
     <<<<111, 99, 116, 111, 98, 101, 114>>, 10>>,
     <<<<110, 111, 118>>, 11>>,
     <<<<110, 111, 118, 101, 109, 98, 101, 114>>, 11>>,
     <<<<100, 101, 99>>, 12>>,
     <<<<100, 101, 99, 101, 109, 98, 101, 114>>, 12>>
    }

contains_key(map, key) ==
    \E e \in map : e[1] = key

get(map, key) ==
    (CHOOSE e \in map : e[1] = key)[2]

\* \d of the regex crate is a Unicode decimal digit; of those the model knows the
\* ASCII digits, the Arabic-Indic digits and the fullwidth digits.
IsRegexDigit(chr) ==
    \/ chr \in 48..57
    \/ chr \in 1632..1641
    \/ chr \in 65296..65305

\* A slip: the month alternation is not anchored at the end of the text.
DatePatternUnanchored(s) ==
    /\ Len(s) >= 7
    /\ \A i \in 1..4 : IsRegexDigit(s[i])
    /\ s[5] = 45
    /\ \/ s[6] = 48 /\ s[7] \in 49..57
       \/ s[6] = 49 /\ s[7] \in 48..50

\* DATE_PATTERN.is_match(s) for ^\d{4}-(0[1-9]|1[0-2])$
DATE_PATTERN(s) ==
    /\ Len(s) = 7
    /\ \A i \in 1..4 : IsRegexDigit(s[i])
    /\ s[5] = 45
    /\ \/ s[6] = 48 /\ s[7] \in 49..57
       \/ s[6] = 49 /\ s[7] \in 48..50

\* The largest u8.
U8Max == 2 ^ 8 - 1

\* The digits of s read as a u8 from value acc on: every character must be an ASCII
\* digit and no intermediate value may exceed u8::MAX.
RECURSIVE ParseU8Digits(_, _)
ParseU8Digits(s, acc) ==
    IF s = <<>> THEN [ok |-> TRUE, value |-> acc]
    ELSE IF ~is_ascii_digit(Head(s)) THEN [ok |-> FALSE]
    ELSE IF acc * 10 + (Head(s) - 48) > U8Max THEN [ok |-> FALSE]
    ELSE ParseU8Digits(Tail(s), acc * 10 + (Head(s) - 48))

\* str::parse::<u8>: an optional '+', then at least one ASCII digit; no '-'.
parse_u8(s) ==
    LET digits == IF s # <<>> /\ Head(s) = 43 THEN Tail(s) ELSE s
    IN  IF digits = <<>> THEN [ok |-> FALSE] ELSE ParseU8Digits(digits, 0)

\* format!("{:02}", n) for n below 100
Format02(n) ==
    <<48 + (n \div 10), 48 + (n % 10)>>

\* chrono's "%Y" for a year in 0..9999: four digits.
FormatYear(y) ==
    <<48 + (y \div 1000), 48 + ((y \div 100) % 10), 48 + ((y \div 10) % 10), 48 + (y % 10)>>

\* format!("{}-{:02}", year, month)
FormatPeriod(y, month) ==
    FormatYear(y) \o <<45>> \o Format02(month)

MonthOutOfRange(value) == [tag |-> "Err", err |-> "month out of range", value |-> value]
UnparsableDate(token) == [tag |-> "Err", err |-> "failed to parse supplied date", token |-> token]
OkDate(d) == [tag |-> "Ok", date |-> d]

\* A slip: the pattern test is skipped, so a full period goes to the number parser.
parse_date_by_month_only(token, utc_year) ==
    IF contains_key(MONTH_MAP, token)
    THEN OkDate(FormatPeriod(utc_year, get(MONTH_MAP, token)))
    ELSE LET month == parse_u8(token)
         IN  IF month.ok /\ month.value \in 1..12
             THEN OkDate(FormatPeriod(utc_year, month.value))
             ELSE IF month.ok THEN MonthOutOfRange(month.value)
             ELSE UnparsableDate(token)

\* parse_date(date), with Utc::now()'s year as a parameter.
parse_date(token, utc_year) ==
    IF DATE_PATTERN(token) THEN OkDate(token)
    ELSE IF contains_key(MONTH_MAP, token)
    THEN OkDate(FormatPeriod(utc_year, get(MONTH_MAP, token)))
    ELSE LET month == parse_u8(token)
         IN  IF month.ok /\ month.value \in 1..12
             THEN OkDate(FormatPeriod(utc_year, month.value))
             ELSE IF month.ok THEN MonthOutOfRange(month.value)
             ELSE UnparsableDate(token)

\* chrono::Month::pred
pred(month) ==
    IF month = 1 THEN 12 ELSE month - 1

IsLeapYear(y) ==
    (y % 4 = 0 /\ y % 100 # 0) \/ y % 400 = 0

\* The number of days of a month of the proleptic Gregorian calendar.
DaysInMonth(y, month) ==
    IF month = 2 THEN (IF IsLeapYear(y) THEN 29 ELSE 28)
    ELSE IF month \in {4, 6, 9, 11} THEN 30
    ELSE 31

\* Option<DateTime>: None, or Some(d).
None == [some |-> FALSE]
Some(d) == [some |-> TRUE, v |-> d]

\* Datelike::with_day, with_month, with_year: None when the date does not exist.
with_day(d, day) ==
    IF day \in 1..DaysInMonth(d.year, d.month) THEN Some([d EXCEPT !.day = day]) ELSE None

with_month(d, month) ==
    IF month \in 1..12 /\ d.day <= DaysInMonth(d.year, month)
    THEN Some([d EXCEPT !.month = month])
    ELSE None

with_year(d, y) ==
    IF d.day <= DaysInMonth(y, d.month) THEN Some([d EXCEPT !.year = y]) ELSE None

\* A slip: the day is kept, so the 31st is carried into the previous month.
first_day_skipped(now) ==
    Some(now)

\* NOW.with_day(1)
first_day(now) ==
    with_day(now, 1)

DateCalculationFailed ==
    [tag |-> "Err", err |-> "datetime calculation for the previous month failed"]

\* The (false, false, true, true) arm of run up to `date`: the previous month's period.
last_period(now) ==
    LET last_month == pred(now.month)
        year == IF last_month = 12 THEN now.year - 1 ELSE now.year
        first == first_day(now)
        moved == IF first.some THEN with_month(first.v, last_month) ELSE None
        last == IF moved.some THEN with_year(moved.v, year) ELSE None
    IN  IF last.some THEN OkDate(FormatPeriod(last.v.year, last.v.month))
        ELSE DateCalculationFailed

(***************************************************************************)
(* The ledger directory: read_ledger, read_all_ledgers and                 *)
(* read_ledgers_for_year.  A directory entry has a name, is a regular file *)
(* or not, can be opened or not, and holds lines.                          *)
(***************************************************************************)
\* The positions of '.' in a file name.
Dots(name) ==
    {i \in 1..Len(name) : name[i] = 46}

LastDot(name) ==
    CHOOSE i \in Dots(name) : \A j \in Dots(name) : j <= i

\* Path::extension: what follows the last '.', unless there is none or the only
\* one starts the name.
HasExtension(name) ==
    Dots(name) # {} /\ LastDot(name) > 1

extension(name) ==
    SubSeq(name, LastDot(name) + 1, Len(name))

\* entry.with_extension("").file_name()
StemOf(name) ==
    SubSeq(name, 1, LastDot(name) - 1)

\* "ledger" and ".ledger"
LedgerExt == <<108, 101, 100, 103, 101, 114>>
DotLedger == <<46>> \o LedgerExt

starts_with(s, prefix) ==
    Len(prefix) <= Len(s) /\ SubSeq(s, 1, Len(prefix)) = prefix

OkLines(ls) == [tag |-> "Ok", lines |-> ls]
InvalidDirectory == [tag |-> "Err", err |-> "invalid ledger directory"]
MissingLedger(d) == [tag |-> "Err", err |-> "missing requested ledger file", date |-> d]
OpenFailed == [tag |-> "Err", err |-> "ledger file read failed"]
ReadDirFailed == [tag |-> "Err", err |-> "read_dir failed"]

\* read_ledger(directory, date)
read_ledger(dir, d) ==
    IF ~dir.is_dir THEN InvalidDirectory
    ELSE LET found == {i \in 1..Len(dir.list) : dir.list[i].name = d \o DotLedger}
         IN  IF found = {} \/ \A i \in found : ~dir.list[i].is_file THEN MissingLedger(d)
             ELSE LET f == dir.list[CHOOSE i \in found : dir.list[i].is_file]
                  IN  IF f.opens THEN OkLines(f.lines) ELSE OpenFailed

\* The for loop of read_all_ledgers from the i-th directory entry on, with the
\* streams collected so far chained in acc.
RECURSIVE ReadAllFrom(_, _, _)
ReadAllFrom(dir, i, acc) ==
    IF i > Len(dir.list) THEN OkLines(acc)
    ELSE LET name == dir.list[i].name
         IN  IF ~HasExtension(name) \/ extension(name) # LedgerExt
             THEN ReadAllFrom(dir, i + 1, acc)
             ELSE IF ~DATE_PATTERN(StemOf(name))
             THEN ReadAllFrom(dir, i + 1, acc)
             ELSE LET r == read_ledger(dir, StemOf(name))
                  IN  IF r.tag = "Err" THEN r
                      ELSE ReadAllFrom(dir, i + 1, acc \o r.lines)

read_all_ledgers(dir) ==
    IF ~dir.is_dir THEN ReadDirFailed ELSE ReadAllFrom(dir, 1, <<>>)

\* The for loop of read_ledgers_for_year.
RECURSIVE ReadYearFrom(_, _, _, _)
ReadYearFrom(dir, year, i, acc) ==
    IF i > Len(dir.list) THEN OkLines(acc)
    ELSE LET name == dir.list[i].name
         IN  IF ~HasExtension(name) \/ extension(name) # LedgerExt
             THEN ReadYearFrom(dir, year, i + 1, acc)
             ELSE IF ~DATE_PATTERN(StemOf(name))
             THEN ReadYearFrom(dir, year, i + 1, acc)
             ELSE IF ~starts_with(StemOf(name), year)
             THEN ReadYearFrom(dir, year, i + 1, acc)
             ELSE LET r == read_ledger(dir, StemOf(name))
                  IN  IF r.tag = "Err" THEN r
                      ELSE ReadYearFrom(dir, year, i + 1, acc \o r.lines)

read_ledgers_for_year(dir, year) ==
    IF ~dir.is_dir THEN ReadDirFailed ELSE ReadYearFrom(dir, year, 1, <<>>)

(***************************************************************************)
(* Ledger::filter and summarize.                                           *)
(***************************************************************************)
\* slice::contains
contains(v, x) ==
    \E i \in 1..Len(v) : v[i] = x

\* A slip: an entry is kept only when every one of its tags is asked for.
filter_on_every_tag(es, tags) ==
    LET Keep(e) == \A i \in 1..Len(e.tags) : contains(tags, e.tags[i])
    IN  SelectSeq(es, Keep)

\* Ledger::filter: entries.retain(|e| e.tags.iter().any(|t| tags.contains(t)))
filter(es, tags) ==
    LET Keep(e) == \E i \in 1..Len(e.tags) : contains(tags, e.tags[i])
    IN  SelectSeq(es, Keep)

\* str::split(','): the pieces between the commas, empty pieces included.
RECURSIVE split(_)
split(s) ==
    LET commas == {i \in 1..Len(s) : s[i] = 44}
    IN  IF commas = {} THEN <<s>>
        ELSE LET c == CHOOSE i \in commas : \A j \in commas : i <= j
             IN  <<SubSeq(s, 1, c - 1)>> \o split(SubSeq(s, c + 1, Len(s)))

\* a + b computed exactly: the low 64 bits and the carry out of them.
AddWide(a, b) ==
    LET t1 == a[1] + b[1]
        t2 == a[2] + b[2] + (t1 \div LimbBase)
        t3 == a[3] + b[3] + (t2 \div LimbBase)
        t4 == a[4] + b[4] + (t3 \div LimbBase)
    IN  [low   |-> <<t1 % LimbBase, t2 % LimbBase, t3 % LimbBase, t4 % LimbBase>>,
         carry |-> t4 \div LimbBase]

\* a < b on u64
U64Less(a, b) ==
    \E k \in 1..4 : a[k] < b[k] /\ \A j \in (k + 1)..4 : a[j] = b[j]

\* a - b on u64 for a >= b
U64Sub(a, b) ==
    LET t1 == a[1] - b[1]
        t2 == a[2] - b[2] - (IF t1 < 0 THEN 1 ELSE 0)
        t3 == a[3] - b[3] - (IF t2 < 0 THEN 1 ELSE 0)
        t4 == a[4] - b[4] - (IF t3 < 0 THEN 1 ELSE 0)
    IN  <<t1 % LimbBase, t2 % LimbBase, t3 % LimbBase, t4 % LimbBase>>

\* `acc + e.amount` on a u64: the sum fits, or the addition overflows: a build with
\* overflow checks panics, one without wraps modulo 2^64.
AddAmount(acc, amount) ==
    LET w == AddWide(acc, amount)
    IN  IF w.carry = 0
        THEN {[panic |-> FALSE, amount |-> w.low]}
        ELSE {[panic |-> TRUE, amount |-> acc], [panic |-> FALSE, amount |-> w.low]}

\* .fold(0, |acc, e| acc + e.amount) over the entries es, from acc on.
RECURSIVE FoldAmounts(_, _)
FoldAmounts(es, acc) ==
    IF es = <<>> THEN {[panic |-> FALSE, amount |-> acc]}
    ELSE UNION {IF o.panic THEN {o} ELSE FoldAmounts(Tail(es), o.amount) :
                o \in AddAmount(acc, es[1].amount)}

OfKind(es, kind) ==
    LET Is(e) == e.kind = kind
    IN  SelectSeq(es, Is)

\* The (tag, amount) pairs the two nested for loops visit for the entries of a kind.
RECURSIVE Contributions(_)
Contributions(es) ==
    IF es = <<>> THEN <<>>
    ELSE [i \in 1..Len(es[1].tags) |-> <<es[1].tags[i], es[1].amount>>]
         \o Contributions(Tail(es))

\* `*map.entry(tag).or_insert(0) += entry.amount`
TableAdd(table, tag, amount) ==
    LET old == IF tag \in DOMAIN table THEN table[tag] ELSE U64Zero
    IN  {[panic |-> o.panic,
          table |-> [t \in DOMAIN table \cup {tag} |-> IF t = tag THEN o.amount ELSE table[t]]] :
         o \in AddAmount(old, amount)}

\* The HashMap after the pairs cs, from table on.
RECURSIVE TableFrom(_, _)
TableFrom(cs, table) ==
    IF cs = <<>> THEN {[panic |-> FALSE, table |-> table]}
    ELSE UNION {IF o.panic THEN {o} ELSE TableFrom(Tail(cs), o.table) :
                o \in TableAdd(table, cs[1][1], cs[1][2])}

EmptyTable == [t \in {} |-> U64Zero]

\* map.iter().collect() followed by sort_by(|a, b| b.1.cmp(a.1)): the map's pairs
\* in some order (a HashMap iterates in no particular one) sorted stably by
\* descending total, that is, any ordering of the pairs with non-increasing totals.
SortedByTotal(table) ==
    LET n == Cardinality(DOMAIN table)
        orders == {f \in [1..n -> DOMAIN table] : \A i, j \in 1..n : i # j => f[i] # f[j]}
    IN  {[i \in 1..n |-> <<f[i], table[f[i]]>>] :
         f \in {g \in orders : \A i, j \in 1..n : i < j => ~U64Less(table[g[i]], table[g[j]])}}

SummaryPanic == [panic |-> TRUE]

\* summarize(ledger): what it prints, as values, or the panic of an overflow.
summarize(l) ==
    LET credits == FoldAmounts(OfKind(l.entries, "Credit"), U64Zero)
        debits == FoldAmounts(OfKind(l.entries, "Debit"), U64Zero)
        by_credit == TableFrom(Contributions(OfKind(l.entries, "Credit")), EmptyTable)
        by_debit == TableFrom(Contributions(OfKind(l.entries, "Debit")), EmptyTable)
    IN  UNION {
          IF tc.panic \/ td.panic \/ bc.panic \/ bd.panic THEN {SummaryPanic}
          ELSE {[panic |-> FALSE,
                 date |-> l.date,
                 num_entries |-> Len(l.entries),
                 total_credits |-> tc.amount,
                 total_debits |-> td.amount,
                 net |-> IF ~U64Less(tc.amount, td.amount)
                         THEN U64Sub(tc.amount, td.amount)
                         ELSE U64Sub(td.amount, tc.amount),
                 kind |-> IF ~U64Less(tc.amount, td.amount) THEN "credit" ELSE "debit",
                 sorted_credits |-> sc,
                 sorted_debits |-> sd] :
                sc \in SortedByTotal(bc.table), sd \in SortedByTotal(bd.table)} :
          tc \in credits, td \in debits, bc \in by_credit, bd \in by_debit}

(***************************************************************************)
(* JSON output: amount_serialize.                                          *)
(***************************************************************************)
\* `amount / 100` and `amount % 100` on a u64, by long division on the limbs.
DivMod100(a) ==
    LET n4 == a[4]
        n3 == (n4 % 100) * LimbBase + a[3]
        n2 == (n3 % 100) * LimbBase + a[2]
        n1 == (n2 % 100) * LimbBase + a[1]
    IN  [units    |-> <<n1 \div 100, n2 \div 100, n3 \div 100, n4 \div 100>>,
         subunits |-> <<n1 % 100, 0, 0, 0>>]

\* A slip: the two elements of the tuple are written in the other order.
amount_serialize_swapped(amount) ==
    <<DivMod100(amount).subunits, DivMod100(amount).units>>

\* amount_serialize: the tuple of two elements, units first.
amount_serialize(amount) ==
    <<DivMod100(amount).units, DivMod100(amount).subunits>>

\* serde_json::to_string(&ledger), as values: every field as it is, the amount as
\* amount_serialize writes it.
to_json(l) ==
    [date |-> l.date,
     entries |-> [i \in 1..Len(l.entries) |->
                     [l.entries[i] EXCEPT !.amount = amount_serialize(@)]]]

(***************************************************************************)
(* run() of main.rs.  `matches` holds the flags --all and --last, the      *)
(* options --year, --date and --filter as None or Some(value), and the     *)
(* flags --edit and --json.                                                *)
(***************************************************************************)
\* matches.contains_id("date"): --date has a default value, so it is always present.
contains_date(m) ==
    TRUE

\* NOW_FMT: NOW.format("%Y-%m")
NOW_FMT(now) ==
    FormatPeriod(now.year, now.month)

\* matches.get_one::<String>("date"): the value given, or the default NOW_FMT.
date_value(m, now) ==
    IF m.date.some THEN m.date.v ELSE NOW_FMT(now)

\* The tuple (all, year, date, last) that run matches on.
Selector(m) ==
    <<m.all, m.year.some, contains_date(m), m.last>>

Conflict == [tag |-> "Err", err |-> "conflicting uses of --all, --year, --date, or --last"]

\* "*"
Star == <<42>>

\* parse_ledger(d, ls) is called: its loop starts.
CallParseLedger(d, ls) ==
    /\ date' = d
    /\ ledger_lines' = ls
    /\ n_read' = 0
    /\ entries' = <<>>
    /\ pc' = "ledger"
    /\ UNCHANGED <<result, line, pos, st, ret, out>>

\* run returns the error e.
Exit(e) ==
    /\ out' = e
    /\ pc' = "exit"
    /\ UNCHANGED <<date, ledger_lines, n_read, entries, result, line, pos, st, ret>>

\* edit_ledger(date, ledger_dir): the editor runs and succeeds, or it does not.
EditLedger(d) ==
    /\ out' \in {[tag |-> "Edited", date |-> d], [tag |-> "Err", err |-> "EDITOR"]}
    /\ date' = d
    /\ pc' = "exit"
    /\ UNCHANGED <<ledger_lines, n_read, entries, result, line, pos, st, ret>>

\* read_ledger's lines are parsed, or its error is returned.
ReadAndParse(d, r) ==
    IF r.tag = "Err" THEN Exit(r) ELSE CallParseLedger(d, r.lines)

\* (true, false, true, false): all ledgers.
RunAll ==
    /\ pc = "run"
    /\ Selector(matches) = <<TRUE, FALSE, TRUE, FALSE>>
    /\ ReadAndParse(Star, read_all_ledgers(directory))
    /\ UNCHANGED <<matches, NOW, directory, ledger, filters>>

\* (false, true, true, false): the ledgers of a year.
RunYear ==
    /\ pc = "run"
    /\ Selector(matches) = <<FALSE, TRUE, TRUE, FALSE>>
    /\ ReadAndParse(matches.year.v, read_ledgers_for_year(directory, matches.year.v))
    /\ UNCHANGED <<matches, NOW, directory, ledger, filters>>

\* (false, false, true, true): the previous month's ledger.
RunLast ==
    /\ pc = "run"
    /\ Selector(matches) = <<FALSE, FALSE, TRUE, TRUE>>
    /\ LET d == last_period(NOW)
       IN  IF d.tag = "Err" THEN Exit(d)
           ELSE IF matches.edit THEN EditLedger(d.date)
           ELSE ReadAndParse(d.date, read_ledger(directory, d.date))
    /\ UNCHANGED <<matches, NOW, directory, ledger, filters>>

\* (false, false, true, false): the ledger of the given (or the current) date.
RunDate ==
    /\ pc = "run"
    /\ Selector(matches) = <<FALSE, FALSE, TRUE, FALSE>>
    /\ LET d == parse_date(date_value(matches, NOW), NOW.utc_year)
       IN  IF d.tag = "Err" THEN Exit(d)
           ELSE IF matches.edit THEN EditLedger(d.date)
           ELSE ReadAndParse(d.date, read_ledger(directory, d.date))
    /\ UNCHANGED <<matches, NOW, directory, ledger, filters>>

\* Every other tuple: the selectors conflict.
RunConflict ==
    /\ pc = "run"
    /\ Selector(matches) \notin {<<TRUE, FALSE, TRUE, FALSE>>, <<FALSE, TRUE, TRUE, FALSE>>,
                                 <<FALSE, FALSE, TRUE, TRUE>>, <<FALSE, FALSE, TRUE, FALSE>>}
    /\ Exit(Conflict)
    /\ UNCHANGED <<matches, NOW, directory, ledger, filters>>

\* parse_ledger returned an error: `?` returns it from run.
ReturnError ==
    /\ pc = "done"
    /\ result.tag = "Err"
    /\ Exit(result)
    /\ UNCHANGED <<matches, NOW, directory, ledger, filters>>

\* parse_ledger returned the ledger; with --filter it is filtered on the tags given.
FilterLedger ==
    /\ pc = "done"
    /\ result.tag = "Ok"
    /\ ledger' = IF matches.filter.some
                 THEN [result.ledger EXCEPT !.entries = filter(@, split(matches.filter.v))]
                 ELSE result.ledger
    /\ filters' = IF matches.filter.some THEN <<split(matches.filter.v)>> ELSE <<>>
    /\ pc' = "filtered"
    /\ UNCHANGED <<date, ledger_lines, n_read, entries, result, line, pos, st, ret>>
    /\ UNCHANGED <<matches, NOW, directory, out>>

\* --json: the ledger is printed as JSON.
PrintJson ==
    /\ pc = "filtered"
    /\ matches.json
    /\ out' = [tag |-> "Json", json |-> to_json(ledger)]
    /\ pc' = "exit"
    /\ UNCHANGED <<date, ledger_lines, n_read, entries, result, line, pos, st, ret>>
    /\ UNCHANGED <<matches, NOW, directory, ledger, filters>>

\* Otherwise the ledger is summarized.
Summarize ==
    /\ pc = "filtered"
    /\ ~matches.json
    /\ \E o \in summarize(ledger) :
          IF o.panic
          THEN pc' = "panic" /\ out' = out
          ELSE pc' = "exit" /\ out' = [tag |-> "Summary", summary |-> o]
    /\ UNCHANGED <<date, ledger_lines, n_read, entries, result, line, pos, st, ret>>
    /\ UNCHANGED <<matches, NOW, directory, ledger, filters>>

(***************************************************************************)
(* The command lines, clocks and directories run is started with.          *)
(***************************************************************************)
MaxFiles == 2
MaxEntries == 3

\* Periods of the canonical shape: "2020-01", "2020-12", "1999-09", and "2020-01"
\* with its year in Arabic-Indic digits.
CanonicalTokens ==
    {
     <<50, 48, 50, 48, 45, 48, 49>>,
     <<50, 48, 50, 48, 45, 49, 50>>,
     <<49, 57, 57, 57, 45, 48, 57>>,
     <<1634, 1632, 1634, 1632, 45, 48, 49>>
    }

\* Almost periods: "2020-13", "2020-00", "2020-1", "20-01", "2020-011", "2020/01".
NearTokens ==
    {
     <<50, 48, 50, 48, 45, 49, 51>>,
     <<50, 48, 50, 48, 45, 48, 48>>,
     <<50, 48, 50, 48, 45, 49>>,
     <<50, 48, 45, 48, 49>>,
     <<50, 48, 50, 48, 45, 48, 49, 49>>,
     <<50, 48, 50, 48, 47, 48, 49>>
    }

\* Month names: "jan", "january", "may", "sep", "september", "dec", "december",
\* "Jan", "JAN", "January", "DECEMBER", "sept".
NameTokens ==
    {
     <<106, 97, 110>>,
     <<106, 97, 110, 117, 97, 114, 121>>,
     <<109, 97, 121>>,
     <<115, 101, 112>>,
     <<115, 101, 112, 116, 101, 109, 98, 101, 114>>,
     <<100, 101, 99>>,
     <<100, 101, 99, 101, 109, 98, 101, 114>>,
     <<74, 97, 110>>,
     <<74, 65, 78>>,
     <<74, 97, 110, 117, 97, 114, 121>>,
     <<68, 69, 67, 69, 77, 66, 69, 82>>,
     <<115, 101, 112, 116>>
    }

\* Numbers and almost numbers: "1", "01", "9", "12", "012", "0", "00", "13", "99",
\* "255", "256", "1000", "-1", "+5", "+", "", "1a", " 1", and a fullwidth "1".
NumberTokens ==
    {
     <<49>>,
     <<48, 49>>,
     <<57>>,
     <<49, 50>>,
     <<48, 49, 50>>,
     <<48>>,
     <<48, 48>>,
     <<49, 51>>,
     <<57, 57>>,
     <<50, 53, 53>>,
     <<50, 53, 54>>,
     <<49, 48, 48, 48>>,
     <<45, 49>>,
     <<43, 53>>,
     <<43>>,
     <<>>,
     <<49, 97>>,
     <<32, 49>>,
     <<65297>>
    }

\* "not_a_real_month"
OtherTokens ==
    {
     <<110, 111, 116, 95, 97, 95, 114, 101, 97, 108, 95, 109, 111, 110, 116, 104>>
    }

Tokens ==
    CanonicalTokens \cup NearTokens \cup NameTokens \cup NumberTokens \cup OtherTokens

\* The days on which run is started: the first and the last days of every month of
\* a common and of a leap year.
Clocks ==
    {[year |-> y, month |-> m, day |-> d, utc_year |-> y] :
     y \in {2019, 2020}, m \in 1..12, d \in {1, 28, 29, 30, 31}}

Today ==
    [year |-> 2020, month |-> 3, day |-> 31, utc_year |-> 2020]

\* Late on New Year's Eve west of Greenwich: the year in UTC is already the next.
NewYearsEve ==
    [year |-> 2020, month |-> 12, day |-> 31, utc_year |-> 2021]

\* Ledger files: 2020-01 ("C 1 #a", "", "D 2 b"), 2020-02 ("# note", "X"),
\* 2019-12 ("D 1 x #a"), 2020-03 (a failed read), and 2020-07 with its year in
\* Arabic-Indic digits ("C 7 u").
LedgerFiles ==
    {
     [name |-> <<50, 48, 50, 48, 45, 48, 49, 46, 108, 101, 100, 103, 101, 114>>, is_file |-> TRUE, opens |-> TRUE,
      lines |-> <<OkLine(<<67, 32, 49, 32, 35, 97>>), OkLine(<<>>), OkLine(<<68, 32, 50, 32, 98>>)>>],
     [name |-> <<50, 48, 50, 48, 45, 48, 50, 46, 108, 101, 100, 103, 101, 114>>, is_file |-> TRUE, opens |-> TRUE,
      lines |-> <<OkLine(<<35, 32, 110, 111, 116, 101>>), OkLine(<<88>>)>>],
     [name |-> <<50, 48, 49, 57, 45, 49, 50, 46, 108, 101, 100, 103, 101, 114>>, is_file |-> TRUE, opens |-> TRUE,
      lines |-> <<OkLine(<<68, 32, 49, 32, 120, 32, 35, 97>>)>>],
     [name |-> <<50, 48, 50, 48, 45, 48, 51, 46, 108, 101, 100, 103, 101, 114>>, is_file |-> TRUE, opens |-> TRUE,
      lines |-> <<ReadError>>],
     [name |-> <<1634, 1632, 1634, 1632, 45, 48, 55, 46, 108, 101, 100, 103, 101, 114>>, is_file |-> TRUE, opens |-> TRUE,
      lines |-> <<OkLine(<<67, 32, 55, 32, 117>>)>>]
    }

\* Other directory entries: "notes.txt", "2020-13.ledger", "2020-04.ledger.bak",
\* "2020-011.ledger", ".ledger", "ledger", a directory "2020-05.ledger", and
\* "2020-06.ledger" that cannot be opened.
OtherFiles ==
    {
     [name |-> <<110, 111, 116, 101, 115, 46, 116, 120, 116>>, is_file |-> TRUE, opens |-> TRUE,
      lines |-> <<OkLine(<<88>>)>>],
     [name |-> <<50, 48, 50, 48, 45, 49, 51, 46, 108, 101, 100, 103, 101, 114>>, is_file |-> TRUE, opens |-> TRUE,
      lines |-> <<OkLine(<<88>>)>>],
     [name |-> <<50, 48, 50, 48, 45, 48, 52, 46, 108, 101, 100, 103, 101, 114, 46, 98, 97, 107>>, is_file |-> TRUE, opens |-> TRUE,
      lines |-> <<OkLine(<<88>>)>>],
     [name |-> <<50, 48, 50, 48, 45, 48, 49, 49, 46, 108, 101, 100, 103, 101, 114>>, is_file |-> TRUE, opens |-> TRUE,
      lines |-> <<OkLine(<<88>>)>>],
     [name |-> <<46, 108, 101, 100, 103, 101, 114>>, is_file |-> TRUE, opens |-> TRUE,
      lines |-> <<OkLine(<<88>>)>>],
     [name |-> <<108, 101, 100, 103, 101, 114>>, is_file |-> TRUE, opens |-> TRUE,
      lines |-> <<OkLine(<<88>>)>>],
     [name |-> <<50, 48, 50, 48, 45, 48, 53, 46, 108, 101, 100, 103, 101, 114>>, is_file |-> FALSE, opens |-> FALSE,
      lines |-> <<>>],
     [name |-> <<50, 48, 50, 48, 45, 48, 54, 46, 108, 101, 100, 103, 101, 114>>, is_file |-> TRUE, opens |-> FALSE,
      lines |-> <<>>]
    }

\* The listings fs::read_dir can give: up to MaxFiles entries in any order.
Listings(files) ==
    {s \in SeqsUpTo(files, MaxFiles) : \A i, j \in 1..Len(s) : i # j => s[i].name # s[j].name}

Dir(list) == [is_dir |-> TRUE, list |-> list]
NoDirectory == [is_dir |-> FALSE, list |-> <<>>]

Directories ==
    {Dir(s) : s \in Listings(LedgerFiles \cup OtherFiles)} \cup {NoDirectory}

\* The directory of the runs that are not about the directory.
HomeDirectory ==
    Dir(<<CHOOSE f \in LedgerFiles : f.name = <<50, 48, 50, 48, 45, 48, 50, 46, 108, 101, 100, 103, 101, 114>>,
          CHOOSE f \in LedgerFiles : f.name = <<50, 48, 50, 48, 45, 48, 49, 46, 108, 101, 100, 103, 101, 114>>>>)

\* The years asked for: "2020", "2019", "20", "2020-0", "" and "x".
Years ==
    {
     <<50, 48, 50, 48>>,
     <<50, 48, 49, 57>>,
     <<50, 48>>,
     <<50, 48, 50, 48, 45, 48>>,
     <<>>,
     <<120>>
    }

\* Ledger lines with tags: "C 1 #x", "C 2 #x #y", "D 1 #x", "D 3 #y #y", "C 5 n",
\* and u64::MAX as a credit with tag #x.
TaggedLines ==
    {
     <<67, 32, 49, 32, 35, 120>>,
     <<67, 32, 50, 32, 35, 120, 32, 35, 121>>,
     <<68, 32, 49, 32, 35, 120>>,
     <<68, 32, 51, 32, 35, 121, 32, 35, 121>>,
     <<67, 32, 53, 32, 110>>,
     <<67, 32, 49, 56, 52, 52, 54, 55, 52, 52, 48, 55, 51, 55, 48, 57, 53, 53, 49, 54, 49, 53, 32, 35, 120>>
    }

\* The values of --filter: "#x", "#x,#y", "#z", "x", "" and ",#y".
Filters ==
    {
     <<35, 120>>,
     <<35, 120, 44, 35, 121>>,
     <<35, 122>>,
     <<120>>,
     <<>>,
     <<44, 35, 121>>
    }

\* The file of March 2020 with the given lines.
MarchLedger(ls) ==
    Dir(<<[name |-> <<50, 48, 50, 48, 45, 48, 51, 46, 108, 101, 100, 103, 101, 114>>, is_file |-> TRUE, opens |-> TRUE,
           lines |-> [i \in 1..Len(ls) |-> OkLine(ls[i])]]>>)

NoFlags ==
    [all |-> FALSE, year |-> None, date |-> None, last |-> FALSE,
     edit |-> FALSE, json |-> FALSE, filter |-> None]

\* run is started: with a --date, on some day with --last, with any set of
\* selectors, on some directory with --all or --year, or on a ledger of tagged
\* lines with or without --filter.
RunInit ==
    /\ \/ /\ matches \in {[NoFlags EXCEPT !.date = Some(t), !.edit = e] :
                          t \in Tokens, e \in BOOLEAN}
          /\ NOW \in {Today, NewYearsEve}
          /\ directory = HomeDirectory
       \/ /\ matches \in {[NoFlags EXCEPT !.last = TRUE, !.edit = e] : e \in BOOLEAN}
          /\ NOW \in Clocks
          /\ directory = HomeDirectory
       \/ /\ matches \in {[NoFlags EXCEPT !.all = a, !.year = y, !.date = d, !.last = l] :
                          a \in BOOLEAN, y \in {None, Some(<<50, 48, 50, 48>>)},
                          d \in {None, Some(<<50, 48, 50, 48, 45, 48, 49>>)}, l \in BOOLEAN}
          /\ NOW = Today
          /\ directory = HomeDirectory
       \/ /\ matches \in {[NoFlags EXCEPT !.all = TRUE]}
                         \cup {[NoFlags EXCEPT !.year = Some(y)] : y \in Years}
          /\ NOW = Today
          /\ directory \in Directories
       \/ /\ matches \in {[NoFlags EXCEPT !.filter = f, !.json = j] :
                          f \in {None} \cup {Some(x) : x \in Filters}, j \in BOOLEAN}
          /\ NOW = Today
          /\ directory \in {MarchLedger(ls) : ls \in SeqsUpTo(TaggedLines, MaxEntries)}
    /\ date = <<>>
    /\ ledger_lines = <<>>
    /\ n_read = 0
    /\ entries = <<>>
    /\ result = NoResult
    /\ line = <<>>
    /\ pos = 0
    /\ st = InitialLocals
    /\ ret = NoResult
    /\ pc = "run"
    /\ ledger = NoResult
    /\ filters = <<>>
    /\ out = NoResult

RunNext ==
    \/ RunAll
    \/ RunYear
    \/ RunLast
    \/ RunDate
    \/ RunConflict
    \/ NextLine
    \/ ParseChar
    \/ ParseEol
    \/ ReturnLedger
    \/ ReturnError
    \/ FilterLedger
    \/ PrintJson
    \/ Summarize

RunSpec == RunInit /\ [][RunNext]_vars

(***************************************************************************)
(* What the properties below read off a run.                               *)
(***************************************************************************)
\* The selectors named on the command line.
NamedSelectors ==
    {x \in {"all", "year", "date", "last"} :
        \/ x = "all" /\ matches.all
        \/ x = "year" /\ matches.year.some
        \/ x = "date" /\ matches.date.some
        \/ x = "last" /\ matches.last}

\* run has gone through its match.
Selected ==
    pc # "run"

\* A period YYYY-MM: four decimal digits, a hyphen, a month from 01 to 12.
Canonical(p) ==
    /\ Len(p) = 7
    /\ \A i \in 1..4 : IsRegexDigit(p[i])
    /\ p[5] = 45
    /\ (p[6] - 48) * 10 + (p[7] - 48) \in 1..12
    /\ p[6] \in 48..57 /\ p[7] \in 48..57

\* A directory entry named "<period>.ledger".
IsPeriodFile(f) ==
    /\ Len(f.name) = 7 + Len(DotLedger)
    /\ Canonical(SubSeq(f.name, 1, 7))
    /\ SubSeq(f.name, 8, Len(f.name)) = DotLedger

PeriodOf(f) ==
    SubSeq(f.name, 1, 7)

\* The members of a sequence that pass a test, in the sequence's order: the k-th of
\* them is the member at the k-th smallest passing index.
Passing(v, Test(_)) ==
    LET K == {i \in 1..Len(v) : Test(v[i])}
    IN  [k \in 1..Cardinality(K) |->
            v[CHOOSE i \in K : Cardinality({j \in K : j <= i}) = k]]

\* The files a run reads, in the order of the directory's listing: every period
\* file for "*", those of the year for a year, the one of the period otherwise.
SourceFiles ==
    LET OfAll(f) == IsPeriodFile(f)
        OfYear(f) == IsPeriodFile(f) /\ starts_with(PeriodOf(f), matches.year.v)
        OfDate(f) == f.name = date \o DotLedger
    IN  IF matches.all THEN Passing(directory.list, OfAll)
        ELSE IF matches.year.some THEN Passing(directory.list, OfYear)
        ELSE Passing(directory.list, OfDate)

\* The lines of some files one after the other.
RECURSIVE Concat(_)
Concat(files) ==
    IF files = <<>> THEN <<>> ELSE files[1].lines \o Concat(Tail(files))

\* Where the k-th line of the stream chained from some files comes from.
RECURSIVE Origin(_, _)
Origin(files, k) ==
    IF k <= Len(files[1].lines) THEN [file |-> files[1].name, line |-> k]
    ELSE Origin(Tail(files), k - Len(files[1].lines))

\* parse_ledger has returned a parse error.
ParseErrorReported ==
    result.tag = "Err" /\ result.msg = "parse error"

(***************************************************************************)
(* C11.  When a line fails to parse, the error reported names the line by  *)
(* its 1-based number within the ledger file it came from (blank and       *)
(* comment lines counted), also when the lines of several files are        *)
(* chained into one stream.  The error carries one number and no file; the *)
(* formula asks that the number is the line's number within its file.  It  *)
(* does not hold: the number is the line's place in the chained stream.    *)
(***************************************************************************)
ErrorLineWithinFile ==
    (Selected /\ ParseErrorReported)
        => result.line = Origin(SourceFiles, n_read).line

(***************************************************************************)
(* C12.  Ledger::filter keeps exactly the entries that have a tag among    *)
(* the tags given, in their order and as they were, and removes the        *)
(* others; the ledger never grows.                                         *)
(***************************************************************************)
\* The tags given to filter.
FilterTags ==
    ToSet(split(matches.filter.v))

HasFilterTag(e) ==
    ToSet(e.tags) \cap FilterTags # {}

Filtered ==
    ledger # NoResult /\ matches.filter.some

FilterKeepsTagged ==
    Filtered =>
        /\ ledger.entries = Passing(result.ledger.entries, HasFilterTag)
        /\ Len(ledger.entries) <= Len(result.ledger.entries)
        /\ ledger.date = result.ledger.date

\* Of three entries, one without tags and one with other tags, filter kept one.
FilterWitness ==
    /\ Filtered
    /\ Len(result.ledger.entries) = 3
    /\ Len(ledger.entries) = 1
    /\ \E i \in 1..3 : result.ledger.entries[i].tags = <<>>
    /\ \E i \in 1..3 : /\ result.ledger.entries[i].tags # <<>>
                       /\ ~HasFilterTag(result.ledger.entries[i])

(***************************************************************************)
(* What the properties below read off a summary.                           *)
(***************************************************************************)
Summarized ==
    out.tag = "Summary"

\* The sum of the amounts of some entries as a natural number of any size: its low
\* 64 bits and what lies above them.
RECURSIVE ExactSum(_)
ExactSum(es) ==
    IF es = <<>> THEN [low |-> U64Zero, high |-> 0]
    ELSE LET rest == ExactSum(Tail(es))
             w == AddWide(rest.low, es[1].amount)
         IN  [low |-> w.low, high |-> rest.high + w.carry]

\* The u64 t is the sum of the amounts of the entries es.
IsSumOf(t, es) ==
    ExactSum(es).high = 0 /\ ExactSum(es).low = t

\* a <= b on u64, by limbs from the most significant down.
RECURSIVE LimbsAtMost(_, _, _)
LimbsAtMost(a, b, k) ==
    IF k = 0 THEN TRUE
    ELSE IF a[k] # b[k] THEN a[k] < b[k]
    ELSE LimbsAtMost(a, b, k - 1)

AtMost(a, b) ==
    LimbsAtMost(a, b, 4)

\* The u64 n is |a - b|: the smaller of a and b plus n is the larger.
IsDistance(n, a, b) ==
    LET lo == IF AtMost(a, b) THEN a ELSE b
        hi == IF AtMost(a, b) THEN b ELSE a
    IN  AddWide(lo, n) = [low |-> hi, carry |-> 0]

CreditEntries ==
    LET Is(e) == e.kind = "Credit"
    IN  Passing(ledger.entries, Is)

DebitEntries ==
    LET Is(e) == e.kind = "Debit"
    IN  Passing(ledger.entries, Is)

(***************************************************************************)
(* C13.  summarize reports as total_credits and total_debits the sums of   *)
(* the amounts of the Credit and of the Debit entries, as net their        *)
(* distance, labelled "credit" when total_credits >= total_debits and      *)
(* "debit" otherwise, and as entry count the number of entries.  It does   *)
(* not hold: a sum above 2^64 - 1 is reported modulo 2^64.                 *)
(***************************************************************************)
SummaryTotals ==
    Summarized =>
        LET s == out.summary
        IN  /\ IsSumOf(s.total_credits, CreditEntries)
            /\ IsSumOf(s.total_debits, DebitEntries)
            /\ IsDistance(s.net, s.total_credits, s.total_debits)
            /\ s.kind = IF AtMost(s.total_debits, s.total_credits) THEN "credit" ELSE "debit"
            /\ s.num_entries = Len(ledger.entries)

(***************************************************************************)
(* C14.  For Credit and for Debit, summarize lists the tags that some      *)
(* entry of the kind carries, each once, with the sum of the full amounts  *)
(* of the entries of the kind that carry it, in non-increasing order of    *)
(* total.  It does not hold: a tag's total above 2^64 - 1 is listed modulo *)
(* 2^64.                                                                   *)
(***************************************************************************)
\* The entries among es that carry tag t.
Carrying(es, t) ==
    LET Has(e) == t \in ToSet(e.tags)
    IN  Passing(es, Has)

\* The listing rows is the tag table of the entries es.
IsTagTable(rows, es) ==
    /\ {rows[i][1] : i \in 1..Len(rows)} = UNION {ToSet(es[i].tags) : i \in 1..Len(es)}
    /\ \A i, j \in 1..Len(rows) : i # j => rows[i][1] # rows[j][1]
    /\ \A i \in 1..Len(rows) : IsSumOf(rows[i][2], Carrying(es, rows[i][1]))
    /\ \A i, j \in 1..Len(rows) : i < j => AtMost(rows[j][2], rows[i][2])

TagTables ==
    Summarized =>
        /\ IsTagTable(out.summary.sorted_credits, CreditEntries)
        /\ IsTagTable(out.summary.sorted_debits, DebitEntries)

(***************************************************************************)
(* C15.  A command line that names more than one of --date, --all, --year  *)
(* and --last is rejected with the conflict error, and no ledger is read.  *)
(* It does not hold: --date named next to one other selector is not told   *)
(* from --date left at its default, and the other selector is honoured.    *)
(***************************************************************************)
OneSelectorOnly ==
    (Selected /\ Cardinality(NamedSelectors) > 1)
        => /\ out = Conflict
           /\ ledger_lines = <<>>

(***************************************************************************)
(* C16.  With --last the period is the month before the current one: of   *)
(* year y and month m it is (y, m - 1) when m > 1 and (y - 1, 12) when     *)
(* m = 1, on every day of the month, and the computation never fails.      *)
(***************************************************************************)
\* Two decimal digits and four decimal digits, most significant first.
TwoDigits(n) ==
    [i \in 1..2 |-> 48 + ((n \div (10 ^ (2 - i))) % 10)]

FourDigits(n) ==
    [i \in 1..4 |-> 48 + ((n \div (10 ^ (4 - i))) % 10)]

\* The text "YYYY-MM" of month m of year y.
PeriodText(y, m) ==
    FourDigits(y) \o <<45>> \o TwoDigits(m)

PreviousPeriod ==
    IF NOW.month > 1 THEN PeriodText(NOW.year, NOW.month - 1)
    ELSE PeriodText(NOW.year - 1, 12)

\* The period run went on with after its match: the one it looked for in vain, or
\* the one it edits or parses.
PeriodUsed ==
    IF "date" \in DOMAIN out /\ out.tag = "Err" THEN out.date
    ELSE date

LastOnly ==
    matches.last /\ ~matches.all /\ ~matches.year.some

DateOnly ==
    matches.date.some /\ ~matches.all /\ ~matches.year.some /\ ~matches.last

Token ==
    matches.date.v

\* The letters A to Z turned to lower case.
Lower(s) ==
    [i \in 1..Len(s) |-> IF s[i] \in 65..90 THEN s[i] + 32 ELSE s[i]]

\* The English month names and their abbreviations, in lower case and in order:
\* the full name of month k is the k-th, its abbreviation the first three letters.
MonthNames ==
    <<<<106, 97, 110, 117, 97, 114, 121>>,
      <<102, 101, 98, 114, 117, 97, 114, 121>>,
      <<109, 97, 114, 99, 104>>,
      <<97, 112, 114, 105, 108>>,
      <<109, 97, 121>>,
      <<106, 117, 110, 101>>,
      <<106, 117, 108, 121>>,
      <<97, 117, 103, 117, 115, 116>>,
      <<115, 101, 112, 116, 101, 109, 98, 101, 114>>,
      <<111, 99, 116, 111, 98, 101, 114>>,
      <<110, 111, 118, 101, 109, 98, 101, 114>>,
      <<100, 101, 99, 101, 109, 98, 101, 114>>>>

\* The month that the token names, in any letter case; 0 when it names none.
MonthNamed(t) ==
    LET ks == {k \in 1..12 : Lower(t) = MonthNames[k] \/ Lower(t) = SubSeq(MonthNames[k], 1, 3)}
    IN  IF ks = {} THEN 0 ELSE CHOOSE k \in ks : TRUE

MonthNameAnyCase ==
    (Selected /\ DateOnly /\ MonthNamed(Token) > 0)
        => PeriodUsed = PeriodText(NOW.utc_year, MonthNamed(Token))

(***************************************************************************)
(* C18.  For a token that is neither a period nor a month name parse_date  *)
(* returns "{current-year}-{month:02}" when the token is an integer from 1 *)
(* to 12, fails with MonthOutOfRange(value) for every other integer, and   *)
(* fails with UnparsableDate(token) only for a token that is no integer.   *)
(* It does not hold: an integer that is negative or above 255 fails with   *)
(* UnparsableDate.                                                         *)
(***************************************************************************)
\* The digits of an integer numeral: what follows its optional sign.
Numeral(t) ==
    IF t # <<>> /\ t[1] \in {43, 45} THEN Tail(t) ELSE t

IsInteger(t) ==
    Numeral(t) # <<>> /\ \A i \in 1..Len(Numeral(t)) : Numeral(t)[i] \in 48..57

RECURSIVE DecimalValue(_)
DecimalValue(d) ==
    IF d = <<>> THEN 0 ELSE DecimalValue(SubSeq(d, 1, Len(d) - 1)) * 10 + (d[Len(d)] - 48)

IntegerValue(t) ==
    IF t[1] = 45 THEN 0 - DecimalValue(Numeral(t)) ELSE DecimalValue(Numeral(t))

IntegerMonth ==
    (Selected /\ DateOnly /\ ~Canonical(Token) /\ MonthNamed(Token) = 0)
        => IF IsInteger(Token) /\ IntegerValue(Token) \in 1..12
           THEN PeriodUsed = PeriodText(NOW.utc_year, IntegerValue(Token))
           ELSE IF IsInteger(Token)
           THEN out.tag = "Err" /\ out.err = "month out of range"
           ELSE out.tag = "Err" /\ out.err = "failed to parse supplied date"
                /\ out.token = Token

(***************************************************************************)
(* C19.  For a token of the shape of a period (four digits, a hyphen, a    *)
(* month from 01 to 12) parse_date returns the token unchanged whatever    *)
(* the clock says, and parse_date applied to any of its results returns    *)
(* that result.                                                            *)
(***************************************************************************)
\* parse_date has returned a period.
Resolved ==
    ~("err" \in DOMAIN out
      /\ out.err \in {"month out of range", "failed to parse supplied date"})

PeriodUnchanged ==
    (Selected /\ DateOnly)
        => /\ Canonical(Token) => Resolved /\ PeriodUsed = Token
           /\ Resolved => \A y \in {NOW.year, NOW.utc_year, NOW.utc_year + 1} :
                             parse_date(PeriodUsed, y) = OkDate(PeriodUsed)

\* "1999-09" was given on New Year's Eve of 2020 and was looked for as given.
PeriodUnchangedWitness ==
    /\ Selected /\ DateOnly
    /\ NOW = NewYearsEve
    /\ Token = <<49, 57, 57, 57, 45, 48, 57>>
    /\ out = MissingLedger(Token)

(***************************************************************************)
(* C20.  --all reads exactly the directory entries named "<period>.ledger" *)
(* with <period> of the shape YYYY-MM (its digits any decimal digits, as   *)
(* the pattern's \d has it), --year y exactly those of them whose period   *)
(* starts with y; every other entry is passed over without an error and    *)
(* adds no lines.                                                          *)
(***************************************************************************)
\* run took the arm of --all or the arm of --year.
AllOrYear ==
    matches.all # matches.year.some /\ ~matches.last

\* run returned an error before parse_ledger was called.
NothingParsed ==
    out.tag = "Err" /\ result = NoResult

Unreadable(f) ==
    ~f.is_file \/ ~f.opens

LocatorIncludes ==
    (Selected /\ AllOrYear)
        => IF NothingParsed
           THEN \/ ~directory.is_dir
                \/ \E i \in 1..Len(SourceFiles) : Unreadable(SourceFiles[i])
           ELSE ledger_lines = Concat(SourceFiles)

\* --year 2019 on a directory that lists a ledger of 2020 and one of 2019 read the
\* lines of the latter.
LocatorWitness ==
    /\ Selected /\ matches.year = Some(<<50, 48, 49, 57>>)
    /\ ~NothingParsed
    /\ Len(directory.list) = 2
    /\ \E i, j \in 1..2 :
          /\ IsPeriodFile(directory.list[i])
          /\ ~starts_with(PeriodOf(directory.list[i]), matches.year.v)
          /\ IsPeriodFile(directory.list[j])
          /\ ledger_lines = directory.list[j].lines
          /\ ledger_lines # <<>>

(***************************************************************************)
(* C21.  In the JSON output every amount a is the pair [units, subunits]   *)
(* with units = a div 100 and subunits = a mod 100: subunits is in 0..99   *)
(* and units * 100 + subunits = a.                                         *)
(***************************************************************************)
JsonPrinted ==
    out.tag = "Json"

\* units * 100 + subunits computed exactly: the low 64 bits and the carry out of them.
Times100Plus(units, subunits) ==
    LET t1 == units[1] * 100 + subunits
        t2 == units[2] * 100 + (t1 \div LimbBase)
        t3 == units[3] * 100 + (t2 \div LimbBase)
        t4 == units[4] * 100 + (t3 \div LimbBase)
    IN  [low   |-> <<t1 % LimbBase, t2 % LimbBase, t3 % LimbBase, t4 % LimbBase>>,
         carry |-> t4 \div LimbBase]

\* The pair written for the amount a is [a div 100, a mod 100].
IsUnitsAndSubunits(pair, a) ==
    /\ Len(pair) = 2
    /\ pair[2][1] \in 0..99
    /\ pair[2] = <<pair[2][1], 0, 0, 0>>
    /\ Times100Plus(pair[1], pair[2][1]) = [low |-> a, carry |-> 0]

AmountPair ==
    JsonPrinted =>
        /\ Len(out.json.entries) = Len(ledger.entries)
        /\ \A i \in 1..Len(ledger.entries) :
              IsUnitsAndSubunits(out.json.entries[i].amount, ledger.entries[i].amount)

\* An amount of 5 was written as [0, 5] and u64::MAX as [184467440737095516, 15].
AmountPairWitness ==
    /\ JsonPrinted
    /\ \E i \in 1..Len(ledger.entries) :
          /\ ledger.entries[i].amount = <<5, 0, 0, 0>>
          /\ out.json.entries[i].amount = <<U64Zero, <<5, 0, 0, 0>>>>
    /\ \E i \in 1..Len(ledger.entries) :
          /\ ledger.entries[i].amount = <<LimbBase - 1, LimbBase - 1, LimbBase - 1, LimbBase - 1>>
          /\ out.json.entries[i].amount[2] = <<15, 0, 0, 0>>

(***************************************************************************)
(* C22.  At every step of parse_entry the pair (prev_state, cur_state) is  *)
(* one of (EntryKind, EntryKind), (EntryKind, Whitespace), (Whitespace,    *)
(* Amount), (Amount, Amount), (Comment, Comment), (Comment, Tag) and (Tag, *)
(* Tag), so the catch-all error 'unexpected parser state transition' is    *)
(* never returned; and the machine only moves forward: through EntryKind,  *)
(* Whitespace and Amount, and then between Comment and Tag.                *)
(***************************************************************************)
KnownPairs ==
    {<<"EntryKind", "EntryKind">>, <<"EntryKind", "Whitespace">>, <<"Whitespace", "Amount">>,
     <<"Amount", "Amount">>, <<"Comment", "Comment">>, <<"Comment", "Tag">>, <<"Tag", "Tag">>}

PairKnown ==
    /\ <<st.prev_state, st.cur_state>> \in KnownPairs
    /\ ret.tag = "Err" => ret.e.err # "UnexpectedTransition"

\* The place of a state in the order of the fields of a line: the kind, the white
\* space after it, the amount, and then the comment with its tags.
FieldOf(state) ==
    IF state = "EntryKind" THEN 1
    ELSE IF state = "Whitespace" THEN 2
    ELSE IF state = "Amount" THEN 3
    ELSE 4

\* A step within one call of parse_entry does not go back to an earlier field.
ForwardStep ==
    pc = "entry" =>
        /\ FieldOf(st'.prev_state) >= FieldOf(st.prev_state)
        /\ FieldOf(st'.cur_state) >= FieldOf(st.cur_state)

ForwardOnly ==
    [](PairKnown) /\ [][ForwardStep]_vars

\* The machine has been in Tag and is back in Comment, reading on.
ForwardOnlyWitness ==
    /\ pc = "entry"
    /\ <<st.prev_state, st.cur_state>> = <<"Comment", "Comment">>
    /\ Len(st.tags) = 1 /\ Len(st.tags[1]) > 1
    /\ pos < Len(line)

(***************************************************************************)
(* C23.  Every tag of an accepted entry starts with '#', has at least one  *)
(* further character and consists of ASCII graphic characters only; a '#'  *)
(* that ends the line never yields the tag "#" in an accepted entry.       *)
(***************************************************************************)
\* A printable ASCII character other than the space.
IsGraphic(chr) ==
    chr > 32 /\ chr < 127

WellFormedTag(t) ==
    /\ Len(t) >= 2
    /\ t[1] = 35
    /\ \A i \in 1..Len(t) : IsGraphic(t[i])

WellFormedTags(e) ==
    \A i \in 1..Len(e.tags) : WellFormedTag(e.tags[i])

TagsWellFormed ==
    /\ Accepted => WellFormedTags(ret.entry)
    /\ \A i \in 1..Len(entries) : WellFormedTags(entries[i])
    /\ result.tag = "Ok" =>
          \A i \in 1..Len(result.ledger.entries) : WellFormedTags(result.ledger.entries[i])

\* "C 1 #b #a #b" has been accepted with the tags "#a" and "#b".
TagsWellFormedWitness ==
    /\ Accepted
    /\ line = <<67, 32, 49, 32, 35, 98, 32, 35, 97, 32, 35, 98>>
    /\ ret.entry.tags = <<<<35, 97>>, <<35, 98>>>>
    /\ entries = <<ret.entry>>

(***************************************************************************)
(* C24.  The accumulation amount * 10 + digit never wraps modulo 2^64: a   *)
(* line whose amount digits denote a value above 2^64 - 1 is never         *)
(* accepted with an amount other than the typed value.  It does not hold:  *)
(* in a build without overflow checks the amount is the typed value modulo *)
(* 2^64.                                                                   *)
(***************************************************************************)
AmountNeverWraps ==
    Accepted => U64Decimal(ret.entry.amount) = StripZeros(TypedDigits(line))

(***************************************************************************)
(* Ledger::filter called by any caller, any number of times.  A Ledger of  *)
(* parsed entries is filtered in place by one tag slice after another;     *)
(* `result` keeps the Ledger as it was parsed and `filters` the slices.    *)
(***************************************************************************)
MaxFilters == 3

\* The lines of the ledgers filtered: TaggedLines with amounts of one digit.
FilterLines ==
    {l \in TaggedLines : Len(l) <= 9}

\* The tag slices: ["#x"], ["#x", "#y"], [""], ["", "#y"] and the empty slice.
TagSlices ==
    {split(f) : f \in {g \in Filters : g = <<>> \/ g[1] \in {35, 44}} \ {<<35, 122>>}}
        \cup {<<>>}

\* A Ledger { date, entries } of up to MaxEntries parsed entries.
FilterInit ==
    /\ date = "2020-03"
    /\ ledger_lines \in {[i \in 1..Len(ls) |-> OkLine(ls[i])] :
                            ls \in SeqsUpTo(FilterLines, MaxEntries)}
    /\ n_read = Len(ledger_lines)
    /\ entries = [i \in 1..Len(ledger_lines) |-> parse_entry(ledger_lines[i].line).entry]
    /\ result = Ledger(date, entries)
    /\ line = <<>>
    /\ pos = 0
    /\ st = InitialLocals
    /\ ret = NoResult
    /\ pc = "caller"
    /\ matches = NoResult
    /\ NOW = NoResult
    /\ directory = NoResult
    /\ ledger = result.ledger
    /\ filters = <<>>
    /\ out = NoResult

\* ledger.filter(tags)
Filter ==
    /\ pc = "caller"
    /\ Len(filters) < MaxFilters
    /\ \E tags \in TagSlices :
          /\ ledger' = [ledger EXCEPT !.entries = filter(@, tags)]
          /\ filters' = Append(filters, tags)
    /\ UNCHANGED <<date, ledger_lines, n_read, entries, result, line, pos, st, ret, pc>>
    /\ UNCHANGED <<matches, NOW, directory, out>>

FilterNext ==
    Filter

FilterSpec == FilterInit /\ [][FilterNext]_vars

(***************************************************************************)
(* C25.  Ledger::filter is idempotent and its applications commute:        *)
(* filter(A) applied twice leaves what filter(A) applied once leaves, and  *)
(* filter(A) then filter(B) leaves the same entry sequence as filter(B)    *)
(* then filter(A), namely the entries of the ledger that have a tag in A   *)
(* and a tag in B, in the ledger's order.                                  *)
(***************************************************************************)
\* The entries of the ledger as parsed that have a tag in each of the first k
\* slices, in the ledger's order.
After(k) ==
    LET InEach(e) == \A j \in 1..k : ToSet(e.tags) \cap ToSet(filters[j]) # {}
    IN  Passing(result.ledger.entries, InEach)

\* The last two slices applied in the other order.
LastTwoSwapped ==
    LET n == Len(filters)
    IN  filter(filter(After(n - 2), filters[n]), filters[n - 1])

\* A call with the slice of the call before it changes nothing.
SameSliceAgain ==
    (/\ Len(filters) >= 1
     /\ filters' = Append(filters, filters[Len(filters)])) => ledger' = ledger

FilterAlgebra ==
    /\ [](pc = "caller" =>
            /\ ledger.entries = After(Len(filters))
            /\ ledger.date = result.ledger.date
            /\ Len(filters) >= 2 => ledger.entries = LastTwoSwapped)
    /\ [][SameSliceAgain]_vars

\* "C 1 #x", "C 2 #x #y", "C 5 n" filtered by ["#x"] twice, which left two
\* entries, and then by ["", "#y"], which left one.
FilterAlgebraWitness ==
    /\ pc = "caller"
    /\ Len(filters) = 3
    /\ filters[1] = <<<<35, 120>>>>
    /\ filters[2] = filters[1]
    /\ filters[3] = <<<<>>, <<35, 121>>>>
    /\ Len(result.ledger.entries) = 3
    /\ Len(After(1)) = 2
    /\ Len(After(2)) = 2
    /\ Len(ledger.entries) = 1
    /\ ledger.entries[1].tags = <<<<35, 120>>, <<35, 121>>>>

=============================================================================
